---------------------------- MODULE Spec2Model ----------------------------
(***************************************************************************)
(* Validation-and-dispatch core of the MCP office assistant gateway:       *)
(*   utils/validation.py     the argument validation engine                *)
(*   utils/formatting.py     the response formatter                        *)
(*   schemas/tool_schemas.py the schema catalog                            *)
(*   main.py                 the MCP front end (handle_call_tool)          *)
(*   lambda_handlers.py      the HTTP front end (tool_executor_handler)    *)
(*                                                                         *)
(* Python values are tagged records.  A Python str whose characters the    *)
(* code inspects (len, re.match, enum comparison) is a sequence of         *)
(* one-character strings; a str the code only builds and passes on is a    *)
(* literal, an f-string (template and substituted values) or the JSON text *)
(* of a value.  A dict keeps its insertion order: a sequence of pairs.     *)
(***************************************************************************)
EXTENDS Integers, Sequences, FiniteSets, TLC

---------------------------------------------------------------------------
(* Python values *)

PyNone == [kind |-> "null"]

PyBool(b) == [kind |-> "bool", b |-> b]

PyInt(n) == [kind |-> "int", n |-> n]

\* a float, held as twice its value (h = 3 is 1.5)
PyFloat(h) == [kind |-> "float", h |-> h]

\* a str given by its characters
PyStr(chars) == [kind |-> "str", chars |-> chars]

\* a str literal of the program text
Lit(text) == [kind |-> "str", lit |-> text]

\* an f-string: its template and the values substituted into it
FStr(template, args) == [kind |-> "str", fmt |-> template, args |-> args]

\* the text json.dumps produces for value v
JsonText(v) == [kind |-> "str", json |-> v]

PyList(elems) == [kind |-> "list", elems |-> elems]

KV(key, val) == [k |-> key, v |-> val]

PyDict(pairs) == [kind |-> "dict", pairs |-> pairs]

\* the object an `async def` call returns before it is awaited
Coroutine == [kind |-> "coroutine"]

EmptyDict == PyDict(<<>>)

Keys(d) == {d.pairs[i].k : i \in 1..Len(d.pairs)}

KeyIndex(d, key) == CHOOSE i \in 1..Len(d.pairs) : d.pairs[i].k = key

\* d[key]
DictGet(d, key) == d.pairs[KeyIndex(d, key)].v

\* d[key] = val : an existing key keeps its position, a new one is appended
DictSet(d, key, val) ==
    IF key \in Keys(d)
    THEN PyDict([d.pairs EXCEPT ![KeyIndex(d, key)] = KV(key, val)])
    ELSE PyDict(Append(d.pairs, KV(key, val)))

DictDel(d, key) ==
    PyDict(SelectSeq(d.pairs, LAMBDA p : p.k # key))

IsNumber(v) == v.kind \in {"int", "float", "bool"}

\* twice the numeric value of an int, float or bool (True is 1)
Twice(v) ==
    CASE v.kind = "int" -> 2 * v.n
      [] v.kind = "float" -> v.h
      [] v.kind = "bool" -> IF v.b THEN 2 ELSE 0

\* Python ==: numbers compare by value across int, float and bool
PyEq(a, b) ==
    IF IsNumber(a) /\ IsNumber(b) THEN Twice(a) = Twice(b) ELSE a = b

\* type(value).__name__
TypeName(v) ==
    CASE v.kind = "null" -> "NoneType"
      [] v.kind = "bool" -> "bool"
      [] v.kind = "int" -> "int"
      [] v.kind = "float" -> "float"
      [] v.kind = "str" -> "str"
      [] v.kind = "list" -> "list"
      [] v.kind = "dict" -> "dict"
      [] OTHER -> "coroutine"

---------------------------------------------------------------------------
(* Regular expressions (module re) on character sequences *)

Lower ==
    {"a", "b", "c", "d", "e", "f", "g", "h", "i", "j", "k", "l", "m",
     "n", "o", "p", "q", "r", "s", "t", "u", "v", "w", "x", "y", "z"}

Upper ==
    {"A", "B", "C", "D", "E", "F", "G", "H", "I", "J", "K", "L", "M",
     "N", "O", "P", "Q", "R", "S", "T", "U", "V", "W", "X", "Y", "Z"}

Digits == {"0", "1", "2", "3", "4", "5", "6", "7", "8", "9"}

\* the characters \s matches
Whitespace == {" ", "\t", "\n", "\r", "\f"}

Punctuation ==
    {"-", "_", ".", ":", "/", "?", "#", "@", "+", "%", "(", ")", ",", "'"}

\* the characters of the model's strings; a negated class is taken in it
AnyChar == Lower \cup Upper \cup Digits \cup Whitespace \cup Punctuation

\* regular expression nodes
ReChr(set) == [op |-> "chr", set |-> set]

ReCat(parts) == [op |-> "cat", parts |-> parts]

ReStar(r) == [op |-> "star", r |-> r]

ReOpt(r) == [op |-> "opt", r |-> r]

RePlus(r) == ReCat(<<r, ReStar(r)>>)

\* r{n}
ReRep(r, n) == ReCat([i \in 1..n |-> r])

\* r{n,}
ReAtLeast(r, n) == ReCat([i \in 1..(n + 1) |-> IF i <= n THEN r ELSE ReStar(r)])

\* ^ (no MULTILINE flag)
ReBol == [op |-> "bol"]

\* $ : the end of the string, or just before a newline that ends it
ReEol == [op |-> "eol"]

RECURSIVE ReEnds(_, _, _)
RECURSIVE ReCatEnds(_, _, _, _)
RECURSIVE ReStarEnds(_, _, _, _)

\* the positions j such that s[i..j-1] matches r (positions from 1)
ReEnds(r, s, i) ==
    CASE r.op = "chr" ->
           IF i <= Len(s) /\ s[i] \in r.set THEN {i + 1} ELSE {}
      [] r.op = "bol" -> IF i = 1 THEN {i} ELSE {}
      [] r.op = "eol" ->
           IF i = Len(s) + 1 \/ (i = Len(s) /\ s[i] = "\n") THEN {i} ELSE {}
      [] r.op = "opt" -> {i} \cup ReEnds(r.r, s, i)
      [] r.op = "star" -> ReStarEnds(r.r, s, {i}, {i})
      [] r.op = "cat" -> ReCatEnds(r.parts, 1, s, {i})

ReCatEnds(parts, n, s, from) ==
    IF n > Len(parts) \/ from = {}
    THEN from
    ELSE ReCatEnds(parts, n + 1, s, UNION {ReEnds(parts[n], s, j) : j \in from})

ReStarEnds(r, s, frontier, seen) ==
    LET new == UNION {ReEnds(r, s, j) : j \in frontier} \ seen
    IN  IF new = {} THEN seen ELSE ReStarEnds(r, s, new, seen \cup new)

\* re.match(r, s) is not None: r matches a prefix of s
re_match(r, s) == ReEnds(r, s, 1) # {}

\* the patterns of the model, by their source text; InvalidPattern does not compile
InvalidPattern == "("

\* re.compile: the expression tree of a pattern text
re_compile(pattern) ==
    CASE pattern = "^\\d{4}-\\d{2}-\\d{2}$" ->
           ReCat(<<ReBol, ReRep(ReChr(Digits), 4), ReChr({"-"}),
                   ReRep(ReChr(Digits), 2), ReChr({"-"}),
                   ReRep(ReChr(Digits), 2), ReEol>>)
      [] pattern = "^[a-zA-Z0-9_-]+$" ->
           ReCat(<<ReBol,
                   RePlus(ReChr(Lower \cup Upper \cup Digits \cup {"_", "-"})),
                   ReEol>>)
      [] pattern = "[0-9]+" -> RePlus(ReChr(Digits))
      [] pattern = "ab" -> ReCat(<<ReChr({"a"}), ReChr({"b"})>>)

\* _is_valid_uri
_is_valid_uri(chars) ==
    re_match(
      ReCat(<<ReBol, ReChr(Lower \cup Upper),
              ReStar(ReChr(Lower \cup Upper \cup Digits \cup {"+", "-", "."})),
              ReChr({":"}),
              ReChr({"/"}), ReChr({"/"}),
              ReStar(ReChr(AnyChar \ (Whitespace \cup {"/", "?", "#"}))),
              ReOpt(ReChr({"/"})),
              ReOpt(ReStar(ReChr(AnyChar \ Whitespace))),
              ReEol>>),
      chars)

\* _is_valid_email
_is_valid_email(chars) ==
    re_match(
      ReCat(<<ReBol,
              RePlus(ReChr(Lower \cup Upper \cup Digits \cup {".", "_", "%", "+", "-"})),
              ReChr({"@"}),
              RePlus(ReChr(Lower \cup Upper \cup Digits \cup {".", "-"})),
              ReChr({"."}),
              ReAtLeast(ReChr(Lower \cup Upper), 2),
              ReEol>>),
      chars)

---------------------------------------------------------------------------
(* utils/validation.py *)

(* A schema node is a record holding the keys the schema dict has: type (the *)
(* list of type names; a single name is the one-element list, line 67),     *)
(* enum, minLength, ..., required (a sequence of names), properties (a      *)
(* sequence of name/schema pairs) and additionalProperties.                 *)

Has(schema, key) == key \in DOMAIN schema

SeqSet(seq) == {seq[i] : i \in 1..Len(seq)}

PropNames(schema) ==
    IF Has(schema, "properties")
    THEN {schema.properties[i].k : i \in 1..Len(schema.properties)}
    ELSE {}

PropSchema(schema, name) ==
    LET i == CHOOSE j \in 1..Len(schema.properties) : schema.properties[j].k = name
    IN  schema.properties[i].v

\* An error message is the str its f-string builds: FStr(template, values).
\* An error list whose last entry is a raised exception stands for the raise.
\* `message` is str(e), a str value
Raise(type, message) == <<[raise |-> type, message |-> message]>>

Raised(errors) == Len(errors) > 0 /\ Has(errors[Len(errors)], "raise")

\* statements in sequence: what follows a raise does not run
Then(first, second) == IF Raised(first) THEN first ELSE first \o second

\* f"{field_name}[{i}]" for the i-th element, counted from 0
IndexLabel(field_name, i) == FStr("{}[{}]", <<field_name, PyInt(i - 1)>>)

\* f"{field_name}.{prop_name}"
PropLabel(field_name, prop_name) == FStr("{}.{}", <<field_name, Lit(prop_name)>>)

RECURSIVE DecChars(_)
\* str(n) of an int
DecChars(n) ==
    LET digit(d) == CHOOSE c \in Digits : ToString(d) = c
    IN  IF n < 0 THEN <<"-">> \o DecChars(0 - n)
        ELSE IF n < 10 THEN <<digit(n)>>
        ELSE Append(DecChars(n \div 10), digit(n % 10))

\* str(item), as uniqueItems compares it; the repr of a list or dict is held
\* as the value itself
py_str(v) ==
    CASE v.kind = "str" -> [text |-> v.chars]
      [] v.kind = "int" -> [text |-> DecChars(v.n)]
      [] v.kind = "bool" ->
           [text |-> IF v.b THEN <<"T", "r", "u", "e">> ELSE <<"F", "a", "l", "s", "e">>]
      [] v.kind = "null" -> [text |-> <<"N", "o", "n", "e">>]
      [] v.kind = "float" ->
           [text |-> (IF v.h < 0 THEN <<"-">> ELSE <<>>)
                     \o DecChars((IF v.h < 0 THEN 0 - v.h ELSE v.h) \div 2)
                     \o <<".", IF v.h % 2 = 0 THEN "0" ELSE "5">>]
      [] OTHER -> [repr |-> v]

\* isinstance(value, type_mapping[expected_type]); bool is a subclass of int
IsInstance(value, expected_type) ==
    CASE expected_type = "string" -> value.kind = "str"
      [] expected_type = "integer" -> value.kind \in {"int", "bool"}
      [] expected_type = "number" -> value.kind \in {"int", "float", "bool"}
      [] expected_type = "boolean" -> value.kind = "bool"
      [] expected_type = "array" -> value.kind = "list"
      [] expected_type = "object" -> value.kind = "dict"
      [] expected_type = "null" -> value.kind = "null"
      [] OTHER -> FALSE

_validate_type(value, expected_types) ==
    \E i \in 1..Len(expected_types) : IsInstance(value, expected_types[i])

_validate_string(value, schema, field_name) ==
    LET lenMin ==
          IF Has(schema, "minLength") /\ Len(value.chars) < schema.minLength
          THEN <<FStr("Field '{}' must be at least {} characters long", <<field_name, PyInt(schema.minLength)>>)>>
          ELSE <<>>
        lenMax ==
          IF Has(schema, "maxLength") /\ Len(value.chars) > schema.maxLength
          THEN <<FStr("Field '{}' must be at most {} characters long", <<field_name, PyInt(schema.maxLength)>>)>>
          ELSE <<>>
        pattern ==
          IF ~Has(schema, "pattern") THEN <<>>
          ELSE IF schema.pattern = InvalidPattern
          THEN Raise("error", Lit("missing ), unterminated subpattern at position 0"))
          ELSE IF ~re_match(re_compile(schema.pattern), value.chars)
          THEN <<FStr("Field '{}' does not match required pattern", <<field_name>>)>>
          ELSE <<>>
        format ==
          IF ~Has(schema, "format") THEN <<>>
          ELSE IF schema.format = "uri" /\ ~_is_valid_uri(value.chars)
          THEN <<FStr("Field '{}' must be a valid URI", <<field_name>>)>>
          ELSE IF schema.format = "email" /\ ~_is_valid_email(value.chars)
          THEN <<FStr("Field '{}' must be a valid email address", <<field_name>>)>>
          ELSE <<>>
    IN  Then(Then(lenMin \o lenMax, pattern), format)

_validate_number(value, schema, field_name) ==
    LET range ==
          (IF Has(schema, "minimum") /\ Twice(value) < 2 * schema.minimum
           THEN <<FStr("Field '{}' must be at least {}", <<field_name, PyInt(schema.minimum)>>)>>
           ELSE <<>>)
          \o (IF Has(schema, "maximum") /\ Twice(value) > 2 * schema.maximum
              THEN <<FStr("Field '{}' must be at most {}", <<field_name, PyInt(schema.maximum)>>)>>
              ELSE <<>>)
          \o (IF Has(schema, "exclusiveMinimum") /\ Twice(value) <= 2 * schema.exclusiveMinimum
              THEN <<FStr("Field '{}' must be greater than {}", <<field_name, PyInt(schema.exclusiveMinimum)>>)>>
              ELSE <<>>)
          \o (IF Has(schema, "exclusiveMaximum") /\ Twice(value) >= 2 * schema.exclusiveMaximum
              THEN <<FStr("Field '{}' must be less than {}", <<field_name, PyInt(schema.exclusiveMaximum)>>)>>
              ELSE <<>>)
        multiple ==
          IF ~Has(schema, "multipleOf") THEN <<>>
          ELSE IF schema.multipleOf = 0
          THEN Raise("ZeroDivisionError", Lit("integer division or modulo by zero"))
          ELSE IF Twice(value) % (2 * schema.multipleOf) # 0
          THEN <<FStr("Field '{}' must be a multiple of {}", <<field_name, PyInt(schema.multipleOf)>>)>>
          ELSE <<>>
    IN  Then(range, multiple)

RECURSIVE _validate_field(_, _, _)
RECURSIVE ItemErrors(_, _, _, _)
RECURSIVE PropertyErrors(_, _, _, _)

\* the items loop stopping after the first element
ItemErrorsOfFirst(value, item_schema, field_name, i) ==
    IF i > Len(value.elems) THEN <<>>
    ELSE _validate_field(value.elems[i], item_schema, IndexLabel(field_name, i))

\* lines 185-187: the errors of elements i.. of the array, in order
ItemErrors(value, item_schema, field_name, i) ==
    IF i > Len(value.elems) THEN <<>>
    ELSE Then(_validate_field(value.elems[i], item_schema, IndexLabel(field_name, i)),
              ItemErrors(value, item_schema, field_name, i + 1))

_validate_array(value, schema, field_name) ==
    LET size ==
          (IF Has(schema, "minItems") /\ Len(value.elems) < schema.minItems
           THEN <<FStr("Field '{}' must have at least {} items", <<field_name, PyInt(schema.minItems)>>)>>
           ELSE <<>>)
          \o (IF Has(schema, "maxItems") /\ Len(value.elems) > schema.maxItems
              THEN <<FStr("Field '{}' must have at most {} items", <<field_name, PyInt(schema.maxItems)>>)>>
              ELSE <<>>)
        items ==
          IF Has(schema, "items")
          THEN ItemErrors(value, schema.items, field_name, 1)
          ELSE <<>>
        unique ==
          IF Has(schema, "uniqueItems") /\ schema.uniqueItems
             /\ Len(value.elems)
                  # Cardinality({py_str(value.elems[i]) : i \in 1..Len(value.elems)})
          THEN <<FStr("Field '{}' must contain unique items", <<field_name>>)>>
          ELSE <<>>
    IN  Then(Then(size, items), unique)

RECURSIVE PropertyErrorsForbidding(_, _, _, _)
\* the nested loop with the default of the top level: a schema that omits
\* additionalProperties forbids undeclared properties
PropertyErrorsForbidding(value, schema, field_name, i) ==
    IF i > Len(value.pairs) THEN <<>>
    ELSE LET prop_name == value.pairs[i].k
             this ==
               IF prop_name \in PropNames(schema)
               THEN _validate_field(value.pairs[i].v, PropSchema(schema, prop_name),
                                    PropLabel(field_name, prop_name))
               ELSE IF ~(IF Has(schema, "additionalProperties")
                         THEN schema.additionalProperties ELSE FALSE)
               THEN <<FStr("Field '{}' has unexpected property '{}'",
                         <<field_name, Lit(prop_name)>>)>>
               ELSE <<>>
         IN  Then(this, PropertyErrorsForbidding(value, schema, field_name, i + 1))

\* lines 216-222: the errors of properties i.. of the object, in its key order
PropertyErrors(value, schema, field_name, i) ==
    IF i > Len(value.pairs) THEN <<>>
    ELSE LET prop_name == value.pairs[i].k
             this ==
               IF prop_name \in PropNames(schema)
               THEN _validate_field(value.pairs[i].v, PropSchema(schema, prop_name),
                                    PropLabel(field_name, prop_name))
               ELSE IF ~(IF Has(schema, "additionalProperties")
                         THEN schema.additionalProperties ELSE TRUE)
               THEN <<FStr("Field '{}' has unexpected property '{}'",
                         <<field_name, Lit(prop_name)>>)>>
               ELSE <<>>
         IN  Then(this, PropertyErrors(value, schema, field_name, i + 1))

_validate_object(value, schema, field_name) ==
    LET size ==
          (IF Has(schema, "minProperties") /\ Len(value.pairs) < schema.minProperties
           THEN <<FStr("Field '{}' must have at least {} properties", <<field_name, PyInt(schema.minProperties)>>)>>
           ELSE <<>>)
          \o (IF Has(schema, "maxProperties") /\ Len(value.pairs) > schema.maxProperties
              THEN <<FStr("Field '{}' must have at most {} properties", <<field_name, PyInt(schema.maxProperties)>>)>>
              ELSE <<>>)
        required == IF Has(schema, "required") THEN schema.required ELSE <<>>
        missing ==
          [i \in 1..Len(required) |->
             FStr("Field '{}' is missing required property '{}'",
                  <<field_name, Lit(required[i])>>)]
    IN  Then(size \o SelectSeq(missing, LAMBDA e : e.args[2].lit \notin Keys(value)),
             PropertyErrors(value, schema, field_name, 1))

\* an untyped field taking null
NullErrorsUntypedAccepts(field_schema, field_name) ==
    IF Has(field_schema, "type") /\ "null" \notin SeqSet(field_schema.type)
    THEN <<FStr("Field '{}' cannot be null", <<field_name>>)>>
    ELSE <<>>

\* lines 59-62: the errors of a null value; field_schema.get("type", [])
NullErrors(field_schema, field_name) ==
    IF "null" \notin SeqSet(IF Has(field_schema, "type") THEN field_schema.type ELSE <<>>)
    THEN <<FStr("Field '{}' cannot be null", <<field_name>>)>>
    ELSE <<>>

\* the enum check as one more elif of the chain on the value's type, which
\* no str, number, list or dict reaches
EnumErrorsUnreached(value, field_schema, field_name) == <<>>

\* lines 90-93: the enum check
EnumErrors(value, field_schema, field_name) ==
    IF Has(field_schema, "enum")
       /\ \A i \in 1..Len(field_schema.enum) : ~PyEq(value, field_schema.enum[i])
    THEN <<FStr("Field '{}' must be one of {}, got '{}'",
              <<field_name, PyList(field_schema.enum), value>>)>>
    ELSE <<>>

_validate_field(value, field_schema, field_name) ==
    LET expected_types == IF Has(field_schema, "type") THEN field_schema.type ELSE <<>>
        byKind ==
          CASE value.kind = "str" -> _validate_string(value, field_schema, field_name)
            [] IsNumber(value) -> _validate_number(value, field_schema, field_name)
            [] value.kind = "list" -> _validate_array(value, field_schema, field_name)
            [] value.kind = "dict" -> _validate_object(value, field_schema, field_name)
            [] OTHER -> <<>>
    IN  IF value.kind = "null"
        THEN NullErrors(field_schema, field_name)
        ELSE IF expected_types # <<>> /\ ~_validate_type(value, expected_types)
        THEN <<FStr("Field '{}' must be of type {}, got {}",
                  <<field_name,
                    PyList([i \in 1..Len(expected_types) |-> Lit(expected_types[i])]),
                    Lit(TypeName(value))>>)>>
        ELSE Then(byKind, EnumErrors(value, field_schema, field_name))

RECURSIVE FieldErrorsDeclaredOnly(_, _, _)
\* the properties loop without its elif branch
FieldErrorsDeclaredOnly(arguments, schema, i) ==
    IF i > Len(arguments.pairs) THEN <<>>
    ELSE LET field_name == arguments.pairs[i].k
             this ==
               IF field_name \in PropNames(schema)
               THEN _validate_field(arguments.pairs[i].v, PropSchema(schema, field_name),
                                    Lit(field_name))
               ELSE <<>>
         IN  Then(this, FieldErrorsDeclaredOnly(arguments, schema, i + 1))

RECURSIVE FieldErrors(_, _, _)
\* lines 34-40: the errors of arguments i.. in the arguments' key order
FieldErrors(arguments, schema, i) ==
    IF i > Len(arguments.pairs) THEN <<>>
    ELSE LET field_name == arguments.pairs[i].k
             this ==
               IF field_name \in PropNames(schema)
               THEN _validate_field(arguments.pairs[i].v, PropSchema(schema, field_name),
                                    Lit(field_name))
               ELSE IF ~(IF Has(schema, "additionalProperties")
                         THEN schema.additionalProperties ELSE FALSE)
               THEN <<FStr("Unknown field: '{}'", <<Lit(field_name)>>)>>
               ELSE <<>>
         IN  Then(this, FieldErrors(arguments, schema, i + 1))

\* the required loop left out
RequiredErrorsSkipped(arguments, schema) == <<>>

\* lines 27-30: `field not in arguments` for each required field.  On a dict it
\* is the key test; None, a number or a coroutine is not iterable; on a list or
\* a str it is evaluated without error (and line 34 raises next)
RequiredErrors(arguments, schema) ==
    LET required == IF Has(schema, "required") THEN schema.required ELSE <<>>
        missing ==
          [i \in 1..Len(required) |->
             FStr("Missing required field: '{}'", <<Lit(required[i])>>)]
    IN  IF required = <<>> THEN <<>>
        ELSE IF arguments.kind = "dict"
        THEN SelectSeq(missing, LAMBDA e : e.args[1].lit \notin Keys(arguments))
        ELSE IF arguments.kind \in {"list", "str"}
        THEN <<>>
        ELSE Raise("TypeError",
                   FStr("argument of type '{}' is not iterable", <<Lit(TypeName(arguments))>>))

\* lines 25-40: the body of the try block
ValidationBody(arguments, schema) ==
    Then(RequiredErrors(arguments, schema),
         IF arguments.kind = "dict"
         THEN FieldErrors(arguments, schema, 1)
         ELSE Raise("AttributeError",
                    FStr("'{}' object has no attribute 'items'",
                         <<Lit(TypeName(arguments))>>)))

\* the except clause appending to the errors gathered so far
validate_keeping_errors(arguments, schema) ==
    LET errors == ValidationBody(arguments, schema)
    IN  IF Raised(errors)
        THEN [valid |-> FALSE,
              errors |-> Append(SubSeq(errors, 1, Len(errors) - 1),
                                FStr("Validation error: {}", <<errors[Len(errors)].message>>))]
        ELSE [valid |-> Len(errors) = 0, errors |-> errors]

\* the except clause returning no error text
validate_dropping_errors(arguments, schema) ==
    LET errors == ValidationBody(arguments, schema)
    IN  IF Raised(errors)
        THEN [valid |-> FALSE, errors |-> <<>>]
        ELSE [valid |-> Len(errors) = 0, errors |-> errors]

validate_tool_arguments(arguments, schema) ==
    LET errors == ValidationBody(arguments, schema)
    IN  IF Raised(errors)
        THEN [valid |-> FALSE,
              errors |-> <<FStr("Validation error: {}", <<errors[Len(errors)].message>>)>>]
        ELSE [valid |-> Len(errors) = 0, errors |-> errors]

---------------------------------------------------------------------------
(* schemas/tool_schemas.py: the schema catalog.  A dict is its sequence of   *)
(* key/value pairs; "description" and "default" entries, which no code of   *)
(* the validation reads, are left out.                                      *)

get_weather_schemas ==
    <<KV("get_weather_data",
         [name |-> "get_weather_data",
          inputSchema |->
            [type |-> <<"object">>,
             properties |->
                <<KV("location_name", [type |-> <<"string">>])>>,
             required |-> <<>>]]),
      KV("get_coordinates",
         [name |-> "get_coordinates",
          inputSchema |->
            [type |-> <<"object">>,
             properties |->
                <<KV("location_name", [type |-> <<"string">>])>>,
             required |-> <<"location_name">>]])>>

get_web_browsing_schemas ==
    <<KV("google_search",
         [name |-> "google_search",
          inputSchema |->
            [type |-> <<"object">>,
             properties |->
                <<KV("search_term", [type |-> <<"string">>]),
                  KV("before", [type |-> <<"string">>, pattern |-> "^\\d{4}-\\d{2}-\\d{2}$"]),
                  KV("after", [type |-> <<"string">>, pattern |-> "^\\d{4}-\\d{2}-\\d{2}$"]),
                  KV("intext", [type |-> <<"string">>]),
                  KV("allintext", [type |-> <<"string">>]),
                  KV("and_condition", [type |-> <<"string">>]),
                  KV("must_have", [type |-> <<"string">>])>>,
             required |-> <<"search_term">>]]),
      KV("browse_internet",
         [name |-> "browse_internet",
          inputSchema |->
            [type |-> <<"object">>,
             properties |->
                <<KV("urls", [type |-> <<"array">>, items |-> [type |-> <<"string">>, format |-> "uri"], minItems |-> 1]),
                  KV("full_text", [type |-> <<"boolean">>])>>,
             required |-> <<"urls">>]]),
      KV("shorten_url",
         [name |-> "shorten_url",
          inputSchema |->
            [type |-> <<"object">>,
             properties |->
                <<KV("url", [type |-> <<"string">>, format |-> "uri"]),
                  KV("custom_code", [type |-> <<"string">>, pattern |-> "^[a-zA-Z0-9_-]+$"])>>,
             required |-> <<"url">>]])>>

get_storage_schemas ==
    <<KV("get_message_by_sort_id",
         [name |-> "get_message_by_sort_id",
          inputSchema |->
            [type |-> <<"object">>,
             properties |->
                <<KV("role", [type |-> <<"string">>, enum |-> <<PyStr(<<"u", "s", "e", "r">>), PyStr(<<"a", "s", "s", "i", "s", "t", "a", "n", "t">>)>>]),
                  KV("chat_id", [type |-> <<"string">>]),
                  KV("sort_id", [type |-> <<"integer">>])>>,
             required |-> <<"role", "chat_id", "sort_id">>]]),
      KV("get_messages_in_range",
         [name |-> "get_messages_in_range",
          inputSchema |->
            [type |-> <<"object">>,
             properties |->
                <<KV("chat_id", [type |-> <<"string">>]),
                  KV("start_sort_id", [type |-> <<"integer">>]),
                  KV("end_sort_id", [type |-> <<"integer">>])>>,
             required |-> <<"chat_id", "start_sort_id", "end_sort_id">>]]),
      KV("get_users",
         [name |-> "get_users",
          inputSchema |->
            [type |-> <<"object">>,
             properties |->
                <<KV("user_id", [type |-> <<"string">>])>>,
             required |-> <<>>]]),
      KV("get_channels",
         [name |-> "get_channels",
          inputSchema |->
            [type |-> <<"object">>,
             properties |->
                <<KV("id", [type |-> <<"string">>])>>,
             required |-> <<>>]]),
      KV("manage_mute_status",
         [name |-> "manage_mute_status",
          inputSchema |->
            [type |-> <<"object">>,
             properties |->
                <<KV("chat_id", [type |-> <<"string">>]),
                  KV("status", [type |-> <<"boolean", "string", "null">>])>>,
             required |-> <<"chat_id">>]])>>

get_slack_schemas ==
    <<KV("send_file_to_slack",
         [name |-> "send_file_to_slack",
          inputSchema |->
            [type |-> <<"object">>,
             properties |->
                <<KV("file_path", [type |-> <<"string">>]),
                  KV("chat_id", [type |-> <<"string">>]),
                  KV("title", [type |-> <<"string">>]),
                  KV("ts", [type |-> <<"string">>])>>,
             required |-> <<"file_path", "chat_id", "title">>]]),
      KV("update_slack_users",
         [name |-> "update_slack_users",
          inputSchema |->
            [type |-> <<"object">>,
             properties |-> <<>>,
             required |-> <<>>]]),
      KV("update_slack_conversations",
         [name |-> "update_slack_conversations",
          inputSchema |->
            [type |-> <<"object">>,
             properties |-> <<>>,
             required |-> <<>>]])>>

get_odoo_schemas ==
    <<KV("odoo_get_mapped_models",
         [name |-> "odoo_get_mapped_models",
          inputSchema |->
            [type |-> <<"object">>,
             properties |->
                <<KV("include_fields", [type |-> <<"boolean">>]),
                  KV("model_name", [type |-> <<"string">>])>>,
             required |-> <<>>]]),
      KV("odoo_fetch_records",
         [name |-> "odoo_fetch_records",
          inputSchema |->
            [type |-> <<"object">>,
             properties |->
                <<KV("external_model", [type |-> <<"string">>]),
                  KV("filters", [type |-> <<"array">>, items |-> [type |-> <<"array">>]])>>,
             required |-> <<"external_model">>]]),
      KV("odoo_create_record",
         [name |-> "odoo_create_record",
          inputSchema |->
            [type |-> <<"object">>,
             properties |->
                <<KV("external_model", [type |-> <<"string">>]),
                  KV("record_data", [type |-> <<"object">>, additionalProperties |-> TRUE])>>,
             required |-> <<"external_model", "record_data">>]]),
      KV("odoo_update_record",
         [name |-> "odoo_update_record",
          inputSchema |->
            [type |-> <<"object">>,
             properties |->
                <<KV("external_model", [type |-> <<"string">>]),
                  KV("record_id", [type |-> <<"integer">>])>>,
             required |-> <<"external_model", "record_id">>,
             additionalProperties |-> TRUE]]),
      KV("odoo_delete_record",
         [name |-> "odoo_delete_record",
          inputSchema |->
            [type |-> <<"object">>,
             properties |->
                <<KV("external_model", [type |-> <<"string">>]),
                  KV("record_id", [type |-> <<"integer">>])>>,
             required |-> <<"external_model", "record_id">>]]),
      KV("odoo_print_record",
         [name |-> "odoo_print_record",
          inputSchema |->
            [type |-> <<"object">>,
             properties |->
                <<KV("model_name", [type |-> <<"string">>]),
                  KV("record_id", [type |-> <<"integer">>])>>,
             required |-> <<"model_name", "record_id">>]]),
      KV("odoo_post_record",
         [name |-> "odoo_post_record",
          inputSchema |->
            [type |-> <<"object">>,
             properties |->
                <<KV("external_model", [type |-> <<"string">>]),
                  KV("record_id", [type |-> <<"integer">>])>>,
             required |-> <<"external_model", "record_id">>]])>>

get_amazon_schemas ==
    <<KV("search_amazon_products",
         [name |-> "search_amazon_products",
          inputSchema |->
            [type |-> <<"object">>,
             properties |->
                <<KV("query", [type |-> <<"string">>]),
                  KV("country", [type |-> <<"string">>, enum |-> <<PyStr(<<"U", "S">>), PyStr(<<"C", "A">>), PyStr(<<"U", "K">>), PyStr(<<"D", "E">>), PyStr(<<"F", "R">>), PyStr(<<"I", "T">>), PyStr(<<"E", "S">>), PyStr(<<"J", "P">>), PyStr(<<"A", "U">>)>>]),
                  KV("page", [type |-> <<"integer">>, minimum |-> 1]),
                  KV("sort_by", [type |-> <<"string">>, enum |-> <<PyStr(<<"R", "E", "L", "E", "V", "A", "N", "C", "E">>), PyStr(<<"P", "R", "I", "C", "E", "_", "L", "O", "W", "_", "T", "O", "_", "H", "I", "G", "H">>), PyStr(<<"P", "R", "I", "C", "E", "_", "H", "I", "G", "H", "_", "T", "O", "_", "L", "O", "W">>), PyStr(<<"R", "A", "T", "I", "N", "G">>), PyStr(<<"N", "E", "W", "E", "S", "T">>)>>]),
                  KV("product_condition", [type |-> <<"string">>, enum |-> <<PyStr(<<"N", "E", "W">>), PyStr(<<"U", "S", "E", "D">>), PyStr(<<"R", "E", "F", "U", "R", "B", "I", "S", "H", "E", "D">>)>>]),
                  KV("is_prime", [type |-> <<"boolean">>]),
                  KV("deals_and_discounts", [type |-> <<"string">>, enum |-> <<PyStr(<<"N", "O", "N", "E">>), PyStr(<<"T", "O", "D", "A", "Y", "_", "D", "E", "A", "L", "S">>), PyStr(<<"O", "N", "_", "S", "A", "L", "E">>)>>])>>,
             required |-> <<"query">>]]),
      KV("search_and_format_products",
         [name |-> "search_and_format_products",
          inputSchema |->
            [type |-> <<"object">>,
             properties |->
                <<KV("query", [type |-> <<"string">>]),
                  KV("country", [type |-> <<"string">>]),
                  KV("max_products", [type |-> <<"integer">>, minimum |-> 1, maximum |-> 20])>>,
             required |-> <<"query">>,
             additionalProperties |-> TRUE]])>>

get_document_schemas ==
    <<KV("send_as_pdf",
         [name |-> "send_as_pdf",
          inputSchema |->
            [type |-> <<"object">>,
             properties |->
                <<KV("text", [type |-> <<"string">>]),
                  KV("chat_id", [type |-> <<"string">>]),
                  KV("title", [type |-> <<"string">>]),
                  KV("ts", [type |-> <<"string">>])>>,
             required |-> <<"text", "chat_id", "title">>]]),
      KV("list_files",
         [name |-> "list_files",
          inputSchema |->
            [type |-> <<"object">>,
             properties |->
                <<KV("folder_prefix", [type |-> <<"string">>])>>,
             required |-> <<>>]]),
      KV("get_embedding",
         [name |-> "get_embedding",
          inputSchema |->
            [type |-> <<"object">>,
             properties |->
                <<KV("text", [type |-> <<"string">>]),
                  KV("model", [type |-> <<"string">>])>>,
             required |-> <<"text">>]])>>

get_utility_schemas ==
    <<KV("solve_maths",
         [name |-> "solve_maths",
          inputSchema |->
            [type |-> <<"object">>,
             properties |->
                <<KV("code", [type |-> <<"string">>])>>,
             required |-> <<"code">>,
             additionalProperties |-> TRUE]]),
      KV("ask_openai_reasoning",
         [name |-> "ask_openai_reasoning",
          inputSchema |->
            [type |-> <<"object">>,
             properties |->
                <<KV("prompt", [type |-> <<"string">>])>>,
             required |-> <<"prompt">>]])>>

\* schemas.update(...) of the eight groups, in order; no name occurs twice
get_all_tool_schemas ==
    get_weather_schemas
      \o get_web_browsing_schemas
      \o get_storage_schemas
      \o get_slack_schemas
      \o get_odoo_schemas
      \o get_amazon_schemas
      \o get_document_schemas
      \o get_utility_schemas

ToolNames == {get_all_tool_schemas[i].k : i \in 1..Len(get_all_tool_schemas)}

\* tool_schemas[tool_name]
Descriptor(tool_schemas, tool_name) ==
    LET i == CHOOSE j \in 1..Len(tool_schemas) : tool_schemas[j].k = tool_name
    IN  tool_schemas[i].v

---------------------------------------------------------------------------
(* The handler classes of handlers/,      by their public methods: the method, *)
(* its parameters after self, how many of them have no default, whether it  *)
(* takes **kwargs, and whether it is an `async def`.                        *)

WeatherHandler ==
    <<[method |-> "get_weather_data", params |-> <<"location_name">>,
       needed |-> 0, kwargs |-> FALSE, is_async |-> TRUE],
      [method |-> "get_coordinates", params |-> <<"location_name">>,
       needed |-> 1, kwargs |-> FALSE, is_async |-> TRUE]>>

WebBrowsingHandler ==
    <<[method |-> "google_search", params |-> <<"search_term", "before", "after", "intext", "allintext", "and_condition", "must_have">>,
       needed |-> 1, kwargs |-> FALSE, is_async |-> TRUE],
      [method |-> "browse_internet", params |-> <<"urls", "full_text">>,
       needed |-> 1, kwargs |-> FALSE, is_async |-> TRUE],
      [method |-> "shorten_url", params |-> <<"url", "custom_code">>,
       needed |-> 1, kwargs |-> FALSE, is_async |-> TRUE]>>

StorageHandler ==
    <<[method |-> "get_message_by_sort_id", params |-> <<"role", "chat_id", "sort_id">>,
       needed |-> 3, kwargs |-> FALSE, is_async |-> TRUE],
      [method |-> "get_messages_in_range", params |-> <<"chat_id", "start_sort_id", "end_sort_id">>,
       needed |-> 3, kwargs |-> FALSE, is_async |-> TRUE],
      [method |-> "get_users", params |-> <<"user_id">>,
       needed |-> 0, kwargs |-> FALSE, is_async |-> TRUE],
      [method |-> "get_channels", params |-> <<"id">>,
       needed |-> 0, kwargs |-> FALSE, is_async |-> TRUE],
      [method |-> "manage_mute_status", params |-> <<"chat_id", "status">>,
       needed |-> 1, kwargs |-> FALSE, is_async |-> TRUE]>>

SlackHandler ==
    <<[method |-> "send_file_to_slack", params |-> <<"file_path", "chat_id", "title", "ts">>,
       needed |-> 3, kwargs |-> FALSE, is_async |-> TRUE],
      [method |-> "update_slack_users", params |-> <<>>,
       needed |-> 0, kwargs |-> FALSE, is_async |-> TRUE],
      [method |-> "update_slack_conversations", params |-> <<>>,
       needed |-> 0, kwargs |-> FALSE, is_async |-> TRUE]>>

OdooHandler ==
    <<[method |-> "get_mapped_models", params |-> <<"include_fields", "model_name">>,
       needed |-> 0, kwargs |-> FALSE, is_async |-> TRUE],
      [method |-> "fetch_records", params |-> <<"external_model", "filters">>,
       needed |-> 1, kwargs |-> FALSE, is_async |-> TRUE],
      [method |-> "create_record", params |-> <<"external_model", "record_data">>,
       needed |-> 2, kwargs |-> FALSE, is_async |-> TRUE],
      [method |-> "update_record", params |-> <<"external_model", "record_id">>,
       needed |-> 2, kwargs |-> TRUE, is_async |-> TRUE],
      [method |-> "delete_record", params |-> <<"external_model", "record_id">>,
       needed |-> 2, kwargs |-> FALSE, is_async |-> TRUE],
      [method |-> "print_record", params |-> <<"model_name", "record_id">>,
       needed |-> 2, kwargs |-> FALSE, is_async |-> TRUE],
      [method |-> "post_record", params |-> <<"external_model", "record_id">>,
       needed |-> 2, kwargs |-> FALSE, is_async |-> TRUE]>>

AmazonHandler ==
    <<[method |-> "search_products", params |-> <<"query", "country", "page", "sort_by", "product_condition", "is_prime", "deals_and_discounts">>,
       needed |-> 1, kwargs |-> FALSE, is_async |-> TRUE],
      [method |-> "search_and_format_products", params |-> <<"query", "country", "max_products">>,
       needed |-> 1, kwargs |-> TRUE, is_async |-> TRUE]>>

DocumentHandler ==
    <<[method |-> "send_as_pdf", params |-> <<"text", "chat_id", "title", "ts">>,
       needed |-> 3, kwargs |-> FALSE, is_async |-> TRUE],
      [method |-> "list_files", params |-> <<"folder_prefix">>,
       needed |-> 0, kwargs |-> FALSE, is_async |-> TRUE],
      [method |-> "get_embedding", params |-> <<"text", "model">>,
       needed |-> 1, kwargs |-> FALSE, is_async |-> TRUE]>>

UtilitiesHandler ==
    <<[method |-> "solve_maths", params |-> <<"code">>,
       needed |-> 1, kwargs |-> TRUE, is_async |-> TRUE],
      [method |-> "ask_openai_o1", params |-> <<"prompt">>,
       needed |-> 1, kwargs |-> FALSE, is_async |-> TRUE]>>

\* the handlers dict both front ends build
handlers ==
    [weather |-> WeatherHandler, web_browsing |-> WebBrowsingHandler,
     storage |-> StorageHandler, slack |-> SlackHandler, odoo |-> OdooHandler,
     amazon |-> AmazonHandler, documents |-> DocumentHandler,
     utilities |-> UtilitiesHandler]

---------------------------------------------------------------------------
(* Routing *)

\* the if/elif chain of _route_tool_call: for each branch the tool name, the handler and
\* method called, the keys read as arguments["x"] (mandatory) and as
\* arguments.get("x") (optional), the parameters passed, and the keys a
\* **{...} comprehension leaves out when it forwards the rest
mcp_branches ==
    <<[tool |-> "get_weather_data", handler |-> "weather", method |-> "get_weather_data", awaited |-> TRUE,
       mandatory |-> <<>>,
       optional |-> <<"location_name">>,
       passes |-> <<"location_name">>,
       forwards |-> FALSE, except |-> <<>>],
      [tool |-> "get_coordinates", handler |-> "weather", method |-> "get_coordinates", awaited |-> TRUE,
       mandatory |-> <<"location_name">>,
       optional |-> <<>>,
       passes |-> <<"location_name">>,
       forwards |-> FALSE, except |-> <<>>],
      [tool |-> "google_search", handler |-> "web_browsing", method |-> "google_search", awaited |-> TRUE,
       mandatory |-> <<"search_term">>,
       optional |-> <<"before", "after", "intext", "allintext", "and_condition", "must_have">>,
       passes |-> <<"search_term", "before", "after", "intext", "allintext", "and_condition", "must_have">>,
       forwards |-> FALSE, except |-> <<>>],
      [tool |-> "browse_internet", handler |-> "web_browsing", method |-> "browse_internet", awaited |-> TRUE,
       mandatory |-> <<"urls">>,
       optional |-> <<"full_text">>,
       passes |-> <<"urls", "full_text">>,
       forwards |-> FALSE, except |-> <<>>],
      [tool |-> "shorten_url", handler |-> "web_browsing", method |-> "shorten_url", awaited |-> TRUE,
       mandatory |-> <<"url">>,
       optional |-> <<"custom_code">>,
       passes |-> <<"url", "custom_code">>,
       forwards |-> FALSE, except |-> <<>>],
      [tool |-> "get_message_by_sort_id", handler |-> "storage", method |-> "get_message_by_sort_id", awaited |-> TRUE,
       mandatory |-> <<"role", "chat_id", "sort_id">>,
       optional |-> <<>>,
       passes |-> <<"role", "chat_id", "sort_id">>,
       forwards |-> FALSE, except |-> <<>>],
      [tool |-> "get_messages_in_range", handler |-> "storage", method |-> "get_messages_in_range", awaited |-> TRUE,
       mandatory |-> <<"chat_id", "start_sort_id", "end_sort_id">>,
       optional |-> <<>>,
       passes |-> <<"chat_id", "start_sort_id", "end_sort_id">>,
       forwards |-> FALSE, except |-> <<>>],
      [tool |-> "get_users", handler |-> "storage", method |-> "get_users", awaited |-> TRUE,
       mandatory |-> <<>>,
       optional |-> <<"user_id">>,
       passes |-> <<"user_id">>,
       forwards |-> FALSE, except |-> <<>>],
      [tool |-> "get_channels", handler |-> "storage", method |-> "get_channels", awaited |-> TRUE,
       mandatory |-> <<>>,
       optional |-> <<"id">>,
       passes |-> <<"id">>,
       forwards |-> FALSE, except |-> <<>>],
      [tool |-> "manage_mute_status", handler |-> "storage", method |-> "manage_mute_status", awaited |-> TRUE,
       mandatory |-> <<"chat_id">>,
       optional |-> <<"status">>,
       passes |-> <<"chat_id", "status">>,
       forwards |-> FALSE, except |-> <<>>],
      [tool |-> "send_file_to_slack", handler |-> "slack", method |-> "send_file_to_slack", awaited |-> TRUE,
       mandatory |-> <<"file_path", "chat_id", "title">>,
       optional |-> <<"ts">>,
       passes |-> <<"file_path", "chat_id", "title", "ts">>,
       forwards |-> FALSE, except |-> <<>>],
      [tool |-> "update_slack_users", handler |-> "slack", method |-> "update_slack_users", awaited |-> TRUE,
       mandatory |-> <<>>,
       optional |-> <<>>,
       passes |-> <<>>,
       forwards |-> FALSE, except |-> <<>>],
      [tool |-> "update_slack_conversations", handler |-> "slack", method |-> "update_slack_conversations", awaited |-> TRUE,
       mandatory |-> <<>>,
       optional |-> <<>>,
       passes |-> <<>>,
       forwards |-> FALSE, except |-> <<>>],
      [tool |-> "odoo_get_mapped_models", handler |-> "odoo", method |-> "get_mapped_models", awaited |-> TRUE,
       mandatory |-> <<>>,
       optional |-> <<"include_fields", "model_name">>,
       passes |-> <<"include_fields", "model_name">>,
       forwards |-> FALSE, except |-> <<>>],
      [tool |-> "odoo_fetch_records", handler |-> "odoo", method |-> "fetch_records", awaited |-> TRUE,
       mandatory |-> <<"external_model">>,
       optional |-> <<"filters">>,
       passes |-> <<"external_model", "filters">>,
       forwards |-> FALSE, except |-> <<>>],
      [tool |-> "odoo_create_record", handler |-> "odoo", method |-> "create_record", awaited |-> TRUE,
       mandatory |-> <<"external_model", "record_data">>,
       optional |-> <<>>,
       passes |-> <<"external_model", "record_data">>,
       forwards |-> FALSE, except |-> <<>>],
      [tool |-> "odoo_update_record", handler |-> "odoo", method |-> "update_record", awaited |-> TRUE,
       mandatory |-> <<"external_model", "record_id">>,
       optional |-> <<>>,
       passes |-> <<"external_model", "record_id">>,
       forwards |-> TRUE, except |-> <<"external_model", "record_id">>],
      [tool |-> "odoo_delete_record", handler |-> "odoo", method |-> "delete_record", awaited |-> TRUE,
       mandatory |-> <<"external_model", "record_id">>,
       optional |-> <<>>,
       passes |-> <<"external_model", "record_id">>,
       forwards |-> FALSE, except |-> <<>>],
      [tool |-> "odoo_print_record", handler |-> "odoo", method |-> "print_record", awaited |-> TRUE,
       mandatory |-> <<"model_name", "record_id">>,
       optional |-> <<>>,
       passes |-> <<"model_name", "record_id">>,
       forwards |-> FALSE, except |-> <<>>],
      [tool |-> "odoo_post_record", handler |-> "odoo", method |-> "post_record", awaited |-> TRUE,
       mandatory |-> <<"external_model", "record_id">>,
       optional |-> <<>>,
       passes |-> <<"external_model", "record_id">>,
       forwards |-> FALSE, except |-> <<>>],
      [tool |-> "search_amazon_products", handler |-> "amazon", method |-> "search_products", awaited |-> TRUE,
       mandatory |-> <<"query">>,
       optional |-> <<"country", "page", "sort_by", "product_condition", "is_prime", "deals_and_discounts">>,
       passes |-> <<"query", "country", "page", "sort_by", "product_condition", "is_prime", "deals_and_discounts">>,
       forwards |-> FALSE, except |-> <<>>],
      [tool |-> "search_and_format_products", handler |-> "amazon", method |-> "search_and_format_products", awaited |-> TRUE,
       mandatory |-> <<"query">>,
       optional |-> <<"country", "max_products">>,
       passes |-> <<"query", "country", "max_products">>,
       forwards |-> TRUE, except |-> <<"query", "country", "max_products">>],
      [tool |-> "send_as_pdf", handler |-> "documents", method |-> "send_as_pdf", awaited |-> TRUE,
       mandatory |-> <<"text", "chat_id", "title">>,
       optional |-> <<"ts">>,
       passes |-> <<"text", "chat_id", "title", "ts">>,
       forwards |-> FALSE, except |-> <<>>],
      [tool |-> "list_files", handler |-> "documents", method |-> "list_files", awaited |-> TRUE,
       mandatory |-> <<>>,
       optional |-> <<"folder_prefix">>,
       passes |-> <<"folder_prefix">>,
       forwards |-> FALSE, except |-> <<>>],
      [tool |-> "get_embedding", handler |-> "documents", method |-> "get_embedding", awaited |-> TRUE,
       mandatory |-> <<"text">>,
       optional |-> <<"model">>,
       passes |-> <<"text", "model">>,
       forwards |-> FALSE, except |-> <<>>],
      [tool |-> "solve_maths", handler |-> "utilities", method |-> "solve_maths", awaited |-> TRUE,
       mandatory |-> <<"code">>,
       optional |-> <<>>,
       passes |-> <<"code">>,
       forwards |-> TRUE, except |-> <<"code">>],
      [tool |-> "ask_openai_reasoning", handler |-> "utilities", method |-> "ask_openai_reasoning", awaited |-> TRUE,
       mandatory |-> <<"prompt">>,
       optional |-> <<>>,
       passes |-> <<"prompt">>,
       forwards |-> FALSE, except |-> <<>>]>>

\* the if/elif chain of route_and_execute_tool: for each branch the tool name, the handler and
\* method called, the keys read as arguments["x"] (mandatory) and as
\* arguments.get("x") (optional), the parameters passed, and the keys a
\* **{...} comprehension leaves out when it forwards the rest
http_branches ==
    <<[tool |-> "get_weather_data", handler |-> "weather", method |-> "get_weather_data", awaited |-> FALSE,
       mandatory |-> <<>>,
       optional |-> <<"location_name">>,
       passes |-> <<"location_name">>,
       forwards |-> FALSE, except |-> <<>>],
      [tool |-> "get_coordinates", handler |-> "weather", method |-> "get_coordinates", awaited |-> FALSE,
       mandatory |-> <<"location_name">>,
       optional |-> <<>>,
       passes |-> <<"location_name">>,
       forwards |-> FALSE, except |-> <<>>],
      [tool |-> "google_search", handler |-> "web_browsing", method |-> "google_search", awaited |-> FALSE,
       mandatory |-> <<"search_term">>,
       optional |-> <<"before", "after", "intext", "allintext", "and_condition", "must_have">>,
       passes |-> <<"search_term", "before", "after", "intext", "allintext", "and_condition", "must_have">>,
       forwards |-> FALSE, except |-> <<>>],
      [tool |-> "browse_internet", handler |-> "web_browsing", method |-> "browse_internet", awaited |-> FALSE,
       mandatory |-> <<"urls">>,
       optional |-> <<"full_text">>,
       passes |-> <<"urls", "full_text">>,
       forwards |-> FALSE, except |-> <<>>],
      [tool |-> "shorten_url", handler |-> "web_browsing", method |-> "shorten_url", awaited |-> FALSE,
       mandatory |-> <<"url">>,
       optional |-> <<"custom_code">>,
       passes |-> <<"url", "custom_code">>,
       forwards |-> FALSE, except |-> <<>>],
      [tool |-> "get_message_by_sort_id", handler |-> "storage", method |-> "get_message_by_sort_id", awaited |-> FALSE,
       mandatory |-> <<"role", "chat_id", "sort_id">>,
       optional |-> <<>>,
       passes |-> <<"role", "chat_id", "sort_id">>,
       forwards |-> FALSE, except |-> <<>>],
      [tool |-> "get_messages_in_range", handler |-> "storage", method |-> "get_messages_in_range", awaited |-> FALSE,
       mandatory |-> <<"chat_id", "start_sort_id", "end_sort_id">>,
       optional |-> <<>>,
       passes |-> <<"chat_id", "start_sort_id", "end_sort_id">>,
       forwards |-> FALSE, except |-> <<>>],
      [tool |-> "get_users", handler |-> "storage", method |-> "get_users", awaited |-> FALSE,
       mandatory |-> <<>>,
       optional |-> <<"user_id">>,
       passes |-> <<"user_id">>,
       forwards |-> FALSE, except |-> <<>>],
      [tool |-> "get_channels", handler |-> "storage", method |-> "get_channels", awaited |-> FALSE,
       mandatory |-> <<>>,
       optional |-> <<"id">>,
       passes |-> <<"id">>,
       forwards |-> FALSE, except |-> <<>>],
      [tool |-> "manage_mute_status", handler |-> "storage", method |-> "manage_mute_status", awaited |-> FALSE,
       mandatory |-> <<"chat_id">>,
       optional |-> <<"status">>,
       passes |-> <<"chat_id", "status">>,
       forwards |-> FALSE, except |-> <<>>],
      [tool |-> "send_file_to_slack", handler |-> "slack", method |-> "send_file_to_slack", awaited |-> FALSE,
       mandatory |-> <<"file_path", "chat_id", "title">>,
       optional |-> <<"ts">>,
       passes |-> <<"file_path", "chat_id", "title", "ts">>,
       forwards |-> FALSE, except |-> <<>>],
      [tool |-> "update_slack_users", handler |-> "slack", method |-> "update_slack_users", awaited |-> FALSE,
       mandatory |-> <<>>,
       optional |-> <<>>,
       passes |-> <<>>,
       forwards |-> FALSE, except |-> <<>>],
      [tool |-> "update_slack_conversations", handler |-> "slack", method |-> "update_slack_conversations", awaited |-> FALSE,
       mandatory |-> <<>>,
       optional |-> <<>>,
       passes |-> <<>>,
       forwards |-> FALSE, except |-> <<>>],
      [tool |-> "odoo_get_mapped_models", handler |-> "odoo", method |-> "get_mapped_models", awaited |-> FALSE,
       mandatory |-> <<>>,
       optional |-> <<"include_fields", "model_name">>,
       passes |-> <<"include_fields", "model_name">>,
       forwards |-> FALSE, except |-> <<>>],
      [tool |-> "odoo_fetch_records", handler |-> "odoo", method |-> "fetch_records", awaited |-> FALSE,
       mandatory |-> <<"external_model">>,
       optional |-> <<"filters">>,
       passes |-> <<"external_model", "filters">>,
       forwards |-> FALSE, except |-> <<>>],
      [tool |-> "odoo_create_record", handler |-> "odoo", method |-> "create_record", awaited |-> FALSE,
       mandatory |-> <<"external_model", "record_data">>,
       optional |-> <<>>,
       passes |-> <<"external_model", "record_data">>,
       forwards |-> FALSE, except |-> <<>>],
      [tool |-> "odoo_update_record", handler |-> "odoo", method |-> "update_record", awaited |-> FALSE,
       mandatory |-> <<"external_model", "record_id">>,
       optional |-> <<>>,
       passes |-> <<"external_model", "record_id">>,
       forwards |-> TRUE, except |-> <<"external_model", "record_id", "_project_id", "_lambda_context">>],
      [tool |-> "odoo_delete_record", handler |-> "odoo", method |-> "delete_record", awaited |-> FALSE,
       mandatory |-> <<"external_model", "record_id">>,
       optional |-> <<>>,
       passes |-> <<"external_model", "record_id">>,
       forwards |-> FALSE, except |-> <<>>],
      [tool |-> "odoo_print_record", handler |-> "odoo", method |-> "print_record", awaited |-> FALSE,
       mandatory |-> <<"model_name", "record_id">>,
       optional |-> <<>>,
       passes |-> <<"model_name", "record_id">>,
       forwards |-> FALSE, except |-> <<>>],
      [tool |-> "odoo_post_record", handler |-> "odoo", method |-> "post_record", awaited |-> FALSE,
       mandatory |-> <<"external_model", "record_id">>,
       optional |-> <<>>,
       passes |-> <<"external_model", "record_id">>,
       forwards |-> FALSE, except |-> <<>>],
      [tool |-> "search_amazon_products", handler |-> "amazon", method |-> "search_products", awaited |-> FALSE,
       mandatory |-> <<"query">>,
       optional |-> <<"country", "page", "sort_by", "product_condition", "is_prime", "deals_and_discounts">>,
       passes |-> <<"query", "country", "page", "sort_by", "product_condition", "is_prime", "deals_and_discounts">>,
       forwards |-> FALSE, except |-> <<>>],
      [tool |-> "search_and_format_products", handler |-> "amazon", method |-> "search_and_format_products", awaited |-> FALSE,
       mandatory |-> <<"query">>,
       optional |-> <<"country", "max_products">>,
       passes |-> <<"query", "country", "max_products">>,
       forwards |-> TRUE, except |-> <<"query", "country", "max_products", "_project_id", "_lambda_context">>],
      [tool |-> "send_as_pdf", handler |-> "documents", method |-> "send_as_pdf", awaited |-> FALSE,
       mandatory |-> <<"text", "chat_id", "title">>,
       optional |-> <<"ts">>,
       passes |-> <<"text", "chat_id", "title", "ts">>,
       forwards |-> FALSE, except |-> <<>>],
      [tool |-> "list_files", handler |-> "documents", method |-> "list_files", awaited |-> FALSE,
       mandatory |-> <<>>,
       optional |-> <<"folder_prefix">>,
       passes |-> <<"folder_prefix">>,
       forwards |-> FALSE, except |-> <<>>],
      [tool |-> "get_embedding", handler |-> "documents", method |-> "get_embedding", awaited |-> FALSE,
       mandatory |-> <<"text">>,
       optional |-> <<"model">>,
       passes |-> <<"text", "model">>,
       forwards |-> FALSE, except |-> <<>>],
      [tool |-> "solve_maths", handler |-> "utilities", method |-> "solve_maths", awaited |-> FALSE,
       mandatory |-> <<"code">>,
       optional |-> <<>>,
       passes |-> <<"code">>,
       forwards |-> TRUE, except |-> <<"code", "_project_id", "_lambda_context">>],
      [tool |-> "ask_openai_reasoning", handler |-> "utilities", method |-> "ask_openai_reasoning", awaited |-> FALSE,
       mandatory |-> <<"prompt">>,
       optional |-> <<>>,
       passes |-> <<"prompt">>,
       forwards |-> FALSE, except |-> <<>>]>>

---------------------------------------------------------------------------
(* json, and utils/formatting.py *)

\* bool(v): Python truthiness
Truthy(v) ==
    CASE v.kind = "null" -> FALSE
      [] v.kind = "bool" -> v.b
      [] v.kind = "int" -> v.n # 0
      [] v.kind = "float" -> v.h # 0
      [] v.kind = "str" ->
           IF Has(v, "chars") THEN v.chars # <<>>
           ELSE IF Has(v, "lit") THEN v.lit # ""
           ELSE TRUE
      [] v.kind = "list" -> v.elems # <<>>
      [] v.kind = "dict" -> v.pairs # <<>>
      [] OTHER -> TRUE

RECURSIVE Serializable(_)
\* whether json.dumps accepts v: a coroutine object is not JSON serializable
Serializable(v) ==
    CASE v.kind = "list" -> \A i \in 1..Len(v.elems) : Serializable(v.elems[i])
      [] v.kind = "dict" -> \A i \in 1..Len(v.pairs) : Serializable(v.pairs[i].v)
      [] v.kind = "coroutine" -> FALSE
      [] OTHER -> TRUE

\* json.dumps(v) raises TypeError when v is not serializable, else is the text
json_dumps_error(v) ==
    Raise("TypeError",
          FStr("Object of type {} is not JSON serializable", <<Lit("coroutine")>>))

\* a str of characters is a JSON document when it spells an integer
IsDigits(chars) ==
    /\ chars # <<>>
    /\ \A i \in 1..Len(chars) : chars[i] \in Digits
    /\ (Len(chars) > 1 => chars[1] # "0")

RECURSIVE DigitsValue(_)
DigitsValue(chars) ==
    IF chars = <<>> THEN 0
    ELSE 10 * DigitsValue(SubSeq(chars, 1, Len(chars) - 1))
         + (CHOOSE d \in 0..9 : ToString(d) = chars[Len(chars)])

\* whether json.loads(text) succeeds.  The literals and f-strings of the
\* program text that reach json.loads are no JSON documents.
IsJson(text) ==
    \/ Has(text, "json")
    \/ Has(text, "chars") /\ IsDigits(text.chars)

\* json.loads(text) for a text that IsJson
json_loads(text) ==
    IF Has(text, "json") THEN text.json ELSE PyInt(DigitsValue(text.chars))

\* datetime.utcnow().isoformat() + "Z" when the clock reads `now`
Timestamp(now) == FStr("{}Z", <<[kind |-> "str", isoformat |-> now]>>)

\* format_error_response(error): every caller of the model passes a str, so
\* error_type is "Error" (line 93); json.dumps of this dict of strs cannot
\* fail, so the fallback of lines 109-118 is never entered
format_error_response(error, now) ==
    JsonText(PyDict(<<
        KV("status", Lit("error")),
        KV("error", PyDict(<<KV("type", Lit("Error")), KV("message", error)>>)),
        KV("timestamp", Timestamp(now))>>))

\* lines 33-68: the dict to serialize, for a result that is not returned as is
SuccessBody(result, now) ==
    IF result.kind = "dict" /\ "status" \in Keys(result)
    THEN result
    ELSE IF result.kind = "list"
    THEN PyDict(<<KV("status", Lit("success")), KV("data", result),
                  KV("count", PyInt(Len(result.elems))),
                  KV("timestamp", Timestamp(now))>>)
    ELSE PyDict(<<KV("status", Lit("success")), KV("data", result),
                  KV("timestamp", Timestamp(now))>>)

\* the formatter without its json.loads test: every str is wrapped
format_wrapping_strings(result, now) ==
    IF Serializable(SuccessBody(result, now))
    THEN JsonText(SuccessBody(result, now))
    ELSE format_error_response(
           FStr("Error formatting response: {}",
                <<json_dumps_error(SuccessBody(result, now))[1].message>>),
           now)

format_success_response(result, now) ==
    IF result.kind = "str" /\ IsJson(result)
    THEN result
    ELSE IF Serializable(SuccessBody(result, now))
    THEN JsonText(SuccessBody(result, now))
    ELSE format_error_response(
           FStr("Error formatting response: {}",
                <<json_dumps_error(SuccessBody(result, now))[1].message>>),
           now)

\* format_validation_error(errors)
format_validation_error(errors, now) ==
    JsonText(PyDict(<<
        KV("status", Lit("error")),
        KV("error", PyDict(<<KV("type", Lit("ValidationError")),
                             KV("message", Lit("Input validation failed")),
                             KV("details", PyList(errors))>>)),
        KV("timestamp", Timestamp(now))>>))

---------------------------------------------------------------------------
(* Routing: _route_tool_call and route_and_execute_tool *)

\* type(handlers[key]).__name__
ClassName ==
    [weather |-> "WeatherHandler", web_browsing |-> "WebBrowsingHandler",
     storage |-> "StorageHandler", slack |-> "SlackHandler",
     odoo |-> "OdooHandler", amazon |-> "AmazonHandler",
     documents |-> "DocumentHandler", utilities |-> "UtilitiesHandler"]

\* an exception in flight: its class and str(e)
Exc(type, message) == [raise |-> type, message |-> message]

IsExc(x) == "raise" \in DOMAIN x

\* the branch of the if/elif chain that tool_name selects, 0 for the else
BranchIndex(branches, tool_name) ==
    IF \E i \in 1..Len(branches) : Lit(branches[i].tool) = tool_name
    THEN CHOOSE i \in 1..Len(branches) : Lit(branches[i].tool) = tool_name
    ELSE 0

\* getattr(handlers[key], method): the method's signature, or <<>> (no such
\* attribute)
MethodOf(key, method) ==
    SelectSeq(handlers[key], LAMBDA m : m.method = method)

\* the **{...} comprehension of a branch: the pairs of arguments it forwards
Forwarded(branch, arguments) ==
    IF branch.forwards
    THEN SelectSeq(arguments.pairs, LAMBDA p : p.k \notin SeqSet(branch.except))
    ELSE <<>>

\* binding the call to the signature: a parameter passed that the method does
\* not have, a needed parameter not passed, or a parameter given twice
BindError(branch, m, arguments) ==
    LET params == SeqSet(m.params)
        passed == SeqSet(branch.passes)
        extra == {Forwarded(branch, arguments)[i].k :
                     i \in 1..Len(Forwarded(branch, arguments))}
    IN  \/ ~m.kwargs /\ ~((passed \cup extra) \subseteq params)
        \/ \E i \in 1..m.needed : m.params[i] \notin passed \cup extra
        \/ passed \cap extra # {}

\* one branch: the attribute lookup comes first, then the arguments are
\* evaluated left to right (arguments["x"] raises KeyError), then the call
RouteBranch(branch, tool_name, arguments) ==
    LET found == MethodOf(branch.handler, branch.method)
        missing == SelectSeq(branch.mandatory, LAMBDA k : k \notin Keys(arguments))
    IN  IF found = <<>>
        THEN Exc("AttributeError",
                 FStr("'{}' object has no attribute '{}'",
                      <<Lit(ClassName[branch.handler]), Lit(branch.method)>>))
        ELSE IF missing # <<>>
        THEN Exc("KeyError", FStr("'{}'", <<Lit(missing[1])>>))
        ELSE IF BindError(branch, found[1], arguments)
        THEN Exc("TypeError",
                 FStr("{}() got unexpected or missing arguments", <<Lit(branch.method)>>))
        ELSE [handler |-> branch.handler, method |-> branch.method,
              is_async |-> found[1].is_async, awaited |-> branch.awaited,
              kwargs |-> PyDict(Forwarded(branch, arguments))]

\* the call a dispatch makes, or the exception raised before any call
Route(branches, tool_name, arguments) ==
    IF BranchIndex(branches, tool_name) = 0
    THEN Exc("ValueError", FStr("Unhandled tool: {}", <<tool_name>>))
    ELSE RouteBranch(branches[BranchIndex(branches, tool_name)], tool_name, arguments)

_route_tool_call(tool_name, arguments) == Route(mcp_branches, tool_name, arguments)

route_and_execute_tool(tool_name, arguments) == Route(http_branches, tool_name, arguments)

---------------------------------------------------------------------------
(* aws-deployment/src/lambda_handlers.py: the HTTP front end *)

default_headers ==
    PyDict(<<KV("Content-Type", Lit("application/json")),
             KV("Access-Control-Allow-Origin", Lit("*")),
             KV("Access-Control-Allow-Headers",
                Lit("Content-Type,X-Amz-Date,Authorization,X-Api-Key,X-Amz-Security-Token")),
             KV("Access-Control-Allow-Methods", Lit("GET,POST,PUT,DELETE,OPTIONS"))>>)

\* create_response(status_code, body): json.dumps(body) can raise
create_response(status_code, body) ==
    IF body.kind # "str" /\ ~Serializable(body)
    THEN Exc("TypeError", json_dumps_error(body)[1].message)
    ELSE [statusCode |-> status_code,
          headers |-> default_headers,
          body |-> IF body.kind = "str" THEN body ELSE JsonText(body)]

\* the dict literal {'status': 'error', 'error': {'type': ..., 'message': ...}}
ErrorBody(type, message) ==
    PyDict(<<KV("status", Lit("error")),
             KV("error", PyDict(<<KV("type", Lit(type)), KV("message", message)>>))>>)

\* x.get(key, default): x without a get attribute raises AttributeError
PyGet(x, key, default) ==
    IF IsExc(x) THEN x
    ELSE IF x.kind = "dict"
    THEN IF key \in Keys(x) THEN DictGet(x, key) ELSE default
    ELSE Exc("AttributeError",
             FStr("'{}' object has no attribute '{}'", <<Lit(TypeName(x)), Lit("get")>>))

\* extract_project_id(event): the project id, or the exception raised
extract_project_id(event) ==
    LET headers == PyGet(event, "headers", EmptyDict)
        upper == PyGet(headers, "X-Project-ID", PyNone)
        lower == PyGet(headers, "x-project-id", PyNone)
        request_context == PyGet(event, "requestContext", EmptyDict)
        identity == PyGet(request_context, "identity", EmptyDict)
        api_key_id == PyGet(identity, "apiKeyId", PyNone)
    IN  IF IsExc(upper) THEN upper
        ELSE IF Truthy(upper) THEN upper
        ELSE IF Truthy(lower) THEN lower
        ELSE IF IsExc(identity) THEN identity
        ELSE IF IsExc(api_key_id) THEN api_key_id
        ELSE Lit("default")

\* the except clause of tool_executor_handler (lines 221-232).  Its first
\* statement reads tool_name: when the exception came before tool_name was
\* assigned, that read raises UnboundLocalError out of the handler
HttpExcept(e, tool_name_bound) ==
    IF tool_name_bound
    THEN create_response(500,
           ErrorBody("InternalError", FStr("Failed to execute tool: {}", <<e.message>>)))
    ELSE Exc("UnboundLocalError",
             FStr("cannot access local variable '{}' where it is not associated with a value", <<Lit("tool_name")>>))

\* lines 135-169: the response returned or exception raised before the
\* catalog lookup, or the locals the lookup starts from
HttpFraming(event) ==
    LET path_params == PyGet(event, "pathParameters", EmptyDict)
        tool_name == PyGet(path_params, "tool_name", PyNone)
        body == PyGet(event, "body", JsonText(EmptyDict))
        project_id == extract_project_id(event)
    IN  IF IsExc(tool_name)
        THEN [response |-> HttpExcept(tool_name, FALSE)]
        ELSE IF ~Truthy(tool_name)
        THEN [response |-> create_response(400,
                 ErrorBody("BadRequest", Lit("Tool name is required")))]
        ELSE IF body.kind = "str" /\ ~IsJson(body)
        THEN [response |-> create_response(400,
                 ErrorBody("BadRequest", Lit("Invalid JSON in request body")))]
        ELSE IF IsExc(project_id)
        THEN [response |-> HttpExcept(project_id, TRUE)]
        ELSE [tool_name |-> tool_name,
              arguments |-> IF body.kind = "str" THEN json_loads(body)
                            ELSE IF Truthy(body) THEN body ELSE EmptyDict,
              project_id |-> project_id]

\* a lookup miss answered with status 200
HttpNotFoundOk(tool_name) ==
    create_response(200,
        ErrorBody("NotFound", FStr("Tool {} not found", <<tool_name>>)))

\* lines 172-180: the response of a lookup miss
HttpNotFound(tool_name) ==
    create_response(404,
        ErrorBody("NotFound", FStr("Tool {} not found", <<tool_name>>)))

\* lines 186-194: the response of a failed validation
HttpInvalid(validation_result) ==
    create_response(400,
        PyDict(<<KV("status", Lit("error")),
                 KV("error", PyDict(<<KV("type", Lit("ValidationError")),
                                      KV("message", Lit("Invalid arguments")),
                                      KV("details", PyList(validation_result.errors))>>))>>))

\* the context keys set with setdefault: a key the caller supplied is kept
WithContextKeepingCaller(arguments, project_id, context) ==
    LET first == IF "_project_id" \in Keys(arguments) THEN arguments
                 ELSE DictSet(arguments, "_project_id", project_id)
    IN  IF "_lambda_context" \in Keys(first) THEN first
        ELSE DictSet(first, "_lambda_context",
                     PyDict(<<KV("function_name", context.function_name),
                              KV("request_id", context.aws_request_id)>>))

\* lines 197-201: arguments with the project context added
WithContext(arguments, project_id, context) ==
    DictSet(DictSet(arguments, "_project_id", project_id),
            "_lambda_context",
            PyDict(<<KV("function_name", context.function_name),
                     KV("request_id", context.aws_request_id)>>))

\* lines 209-219: the response for the value the routed call gave back
HttpSuccess(result) ==
    LET parsed ==
          IF result.kind = "str"
          THEN IF IsJson(result) THEN json_loads(result)
               ELSE PyDict(<<KV("status", Lit("success")), KV("data", result)>>)
          ELSE result
        response == create_response(200, parsed)
    IN  IF IsExc(response) THEN HttpExcept(response, TRUE) ELSE response

---------------------------------------------------------------------------
(* main.py: the MCP front end *)

\* [TextContent(type="text", text=text)]
TextContent(text) == [content |-> <<[type |-> "text", text |-> text]>>]

\* arguments or {}
OrEmpty(arguments) == IF Truthy(arguments) THEN arguments ELSE EmptyDict

\* lines 117-123
McpUnknownTool(name, now) ==
    TextContent(format_error_response(FStr("Unknown tool: {}", <<name>>), now))

\* lines 132-138
McpInvalid(validation_result, now) ==
    TextContent(format_error_response(
        FStr("Invalid arguments: {}", <<PyList(validation_result.errors)>>), now))

\* lines 149-155: the except clause of handle_call_tool
McpExcept(name, e, now) ==
    TextContent(format_error_response(
        FStr("Error executing tool {}: {}", <<name, e.message>>), now))

\* lines 143-147
McpSuccess(result, now) == TextContent(format_success_response(result, now))

---------------------------------------------------------------------------
(* Requests *)

\* the largest reading of the clock that stamps an envelope
MaxClock == 1

Clock == 0..MaxClock

Chars(text) ==
    CASE text = "date" -> <<"2", "0", "2", "4", "-", "0", "1", "-", "0", "2">>
      [] text = "uri" -> <<"h", "t", "t", "p", ":", "/", "/", "a">>
      [] OTHER -> <<"x">>

\* the values a request puts under a key
Values ==
    {PyNone, PyBool(TRUE), PyInt(0), PyInt(1), PyInt(21),
     PyStr(Chars("x")), PyStr(Chars("date")), PyStr(Chars("uri")),
     PyList(<<>>), PyList(<<PyStr(Chars("uri"))>>), PyList(<<PyInt(1)>>),
     EmptyDict}

\* arguments that are no mapping
NonMappings == {PyNone, PyList(<<>>), PyList(<<PyInt(1)>>), PyInt(1), PyStr(Chars("x"))}

\* a key no schema declares
ExtraKeys == {"zz"}

\* names the catalog does not hold
UnknownNames == {"nonexistent_tool", "get_weather"}

\* a value the field schema accepts
ValidValue(field_schema) ==
    CHOOSE v \in Values \cup (IF Has(field_schema, "enum") THEN SeqSet(field_schema.enum) ELSE {}) :
        _validate_field(v, field_schema, Lit("")) = <<>>

\* arguments holding exactly the required keys of the schema, each valid
BaseArguments(schema) ==
    PyDict([i \in 1..Len(schema.required) |->
               KV(schema.required[i], ValidValue(PropSchema(schema, schema.required[i])))])

\* the arguments a request carries for a catalog tool: the base, the base
\* without one required key, the base with one key set to each value, and
\* the values that are no mapping
ArgumentsFor(name) ==
    LET schema == Descriptor(get_all_tool_schemas, name).inputSchema
        base == BaseArguments(schema)
    IN  {base}
        \cup {DictDel(base, k) : k \in SeqSet(schema.required)}
        \cup {DictSet(base, k, v) : k \in PropNames(schema) \cup ExtraKeys, v \in Values}
        \cup NonMappings

McpRequests ==
    UNION {{[name |-> Lit(n), arguments |-> a] : a \in ArgumentsFor(n)} : n \in ToolNames}
    \cup {[name |-> Lit(n), arguments |-> a] :
             n \in UnknownNames, a \in {PyNone, EmptyDict, PyDict(<<KV("zz", PyInt(1))>>)}}

\* a key the event does not have
Absent == [kind |-> "absent"]

EventOf(path_params, body, headers, request_context) ==
    PyDict(SelectSeq(<<KV("pathParameters", path_params), KV("body", body),
                       KV("headers", headers), KV("requestContext", request_context)>>,
                     LAMBDA p : p.v # Absent))

ToolPath(tool_name) == PyDict(<<KV("tool_name", tool_name)>>)

ProjectHeaders == PyDict(<<KV("X-Project-ID", Lit("acme"))>>)

\* events of every shape around one known and one unknown tool
FramingEvents ==
    {EventOf(pp, b, h, rc) :
        pp \in {Absent, PyNone, EmptyDict, ToolPath(PyNone), ToolPath(Lit("")),
                ToolPath(Lit("get_weather_data")), ToolPath(Lit("nonexistent_tool"))},
        b \in {Absent, PyNone, Lit("{not json"), EmptyDict, JsonText(EmptyDict),
               PyDict(<<KV("location_name", PyStr(Chars("x")))>>)},
        h \in {Absent, PyNone, EmptyDict, ProjectHeaders,
               PyDict(<<KV("x-project-id", Lit("acme"))>>)},
        rc \in {Absent, PyNone}}

\* well-framed events for every tool and arguments
ToolEvents ==
    {EventOf(ToolPath(r.name), JsonText(r.arguments), ProjectHeaders, Absent) :
        r \in McpRequests}

\* the tools whose branch forwards the keys it does not name
PassThroughTools == {"odoo_update_record", "search_and_format_products", "solve_maths"}

\* arguments of the tool that hold the context keys of the adapter, alone
\* and beside an undeclared key
ContextKeyArguments(name) ==
    LET base == BaseArguments(Descriptor(get_all_tool_schemas, name).inputSchema)
    IN  {DictSet(base, "_project_id", Lit("other")),
         DictSet(base, "_lambda_context", PyInt(1)),
         DictSet(DictSet(DictSet(base, "_lambda_context", EmptyDict), "zz", PyInt(1)),
                 "_project_id", Lit("other"))}

\* well-framed events for the pass-through tools with those arguments
ContextKeyEvents ==
    UNION {{EventOf(ToolPath(Lit(n)), JsonText(a), ProjectHeaders, Absent) :
               a \in ContextKeyArguments(n)} :
             n \in PassThroughTools}

HttpEvents == FramingEvents \cup ToolEvents \cup ContextKeyEvents

\* the Lambda context object
LambdaContext ==
    [function_name |-> Lit("mcp-tool-executor"), aws_request_id |-> Lit("request-1")]

\* what a handler method gives when its body runs: the envelope texts
\* handlers build with the formatter, other values, or an exception
HandlerOutcomes ==
    {[returns |-> format_success_response(PyDict(<<KV("temp", PyInt(1))>>), 0)],
     [returns |-> format_error_response(Lit("upstream request failed"), 0)],
     [returns |-> Lit("plain text")],
     [returns |-> PyDict(<<KV("temp", PyInt(1))>>)],
     [returns |-> PyDict(<<KV("status", Lit("success")), KV("data", PyInt(1))>>)],
     [returns |-> PyList(<<PyInt(1), PyInt(2)>>)],
     [returns |-> PyList(<<>>)],
     [returns |-> PyNone],
     [returns |-> Coroutine],
     Exc("RuntimeError", Lit("handler failed"))}

---------------------------------------------------------------------------
(* The dispatcher: one request at a time through either front end *)

VARIABLES
    tool_schemas,       \* self.tool_schemas, loaded at construction
    front,              \* "none", "mcp" (handle_call_tool), "http" (tool_executor_handler)
    pc,                 \* where the handler stands
    request,            \* what the caller passed
    tool_name,          \* local name / tool_name
    arguments,          \* local arguments
    project_id,         \* local project_id (HTTP)
    validation_result,  \* local validation_result
    call,               \* the handler method call the routing made
    result,             \* what the handler call gave
    response,           \* what the front end returned or raised to its caller
    log                 \* the steps taken, in order

vars ==
    <<tool_schemas, front, pc, request, tool_name, arguments, project_id,
      validation_result, call, result, response, log>>

\* a local not assigned yet
Unbound == [kind |-> "unbound"]

Idle ==
    /\ front = "none"
    /\ pc = "idle"
    /\ request = Unbound
    /\ tool_name = Unbound
    /\ arguments = Unbound
    /\ project_id = Unbound
    /\ validation_result = Unbound
    /\ call = Unbound
    /\ result = Unbound
    /\ response = Unbound
    /\ log = <<>>

\* OfficeAssistantServer.__init__
Init ==
    /\ tool_schemas = get_all_tool_schemas
    /\ Idle

\* name in self.tool_schemas
InCatalog(schemas, name) ==
    \E i \in 1..Len(schemas) : Lit(schemas[i].k) = name

\* the validity test left out
AlwaysValid(validation) == TRUE

\* if not validation_result["valid"]
IsValid(validation) == validation.valid

\* handle_call_tool(name, arguments) as one function of the request (args), of what
\* the awaited handler method gives and of the clock: lines 114-155
handle_call_tool(schemas, name, args, outcome, now) ==
    IF ~InCatalog(schemas, name) THEN McpUnknownTool(name, now)
    ELSE LET validation ==
               validate_tool_arguments(OrEmpty(args),
                                       Descriptor(schemas, name.lit).inputSchema)
             routed == _route_tool_call(name, OrEmpty(args))
         IN  IF ~IsValid(validation) THEN McpInvalid(validation, now)
             ELSE IF IsExc(routed) THEN McpExcept(name, routed, now)
             ELSE IF IsExc(outcome) THEN McpExcept(name, outcome, now)
             ELSE McpSuccess(outcome.returns, now)

\* handle_call_tool is entered (line 114)
McpReceive ==
    /\ pc = "idle"
    /\ \E r \in McpRequests :
          /\ request' = r
          /\ tool_name' = r.name
          /\ arguments' = r.arguments
    /\ front' = "mcp"
    /\ pc' = "lookup"
    /\ UNCHANGED <<tool_schemas, project_id, validation_result, call, result, response, log>>

\* lines 117-126
McpLookup ==
    /\ front = "mcp" /\ pc = "lookup"
    /\ log' = Append(log, "lookup")
    /\ IF InCatalog(tool_schemas, tool_name)
       THEN /\ pc' = "validate"
            /\ UNCHANGED response
       ELSE /\ pc' = "done"
            /\ \E now \in Clock : response' = McpUnknownTool(tool_name, now)
    /\ UNCHANGED <<tool_schemas, front, request, tool_name, arguments, project_id,
                   validation_result, call, result>>

\* lines 127-138
McpValidate ==
    /\ front = "mcp" /\ pc = "validate"
    /\ log' = Append(log, "validate")
    /\ validation_result' =
          validate_tool_arguments(OrEmpty(arguments),
                                  Descriptor(tool_schemas, tool_name.lit).inputSchema)
    /\ IF IsValid(validation_result')
       THEN /\ pc' = "route"
            /\ UNCHANGED response
       ELSE /\ pc' = "done"
            /\ \E now \in Clock : response' = McpInvalid(validation_result', now)
    /\ UNCHANGED <<tool_schemas, front, request, tool_name, arguments, project_id,
                   call, result>>

\* line 141 up to the await: _route_tool_call runs to the handler call
McpRoute ==
    /\ front = "mcp" /\ pc = "route"
    /\ LET routed == _route_tool_call(tool_name, OrEmpty(arguments))
       IN  IF IsExc(routed)
           THEN /\ pc' = "done"
                /\ \E now \in Clock : response' = McpExcept(tool_name, routed, now)
                /\ UNCHANGED <<call, log>>
           ELSE /\ pc' = "await"
                /\ call' = routed
                /\ log' = Append(log, "handler")
                /\ UNCHANGED response
    /\ UNCHANGED <<tool_schemas, front, request, tool_name, arguments, project_id,
                   validation_result, result>>

\* the awaited handler finishes: lines 141-155
McpComplete ==
    /\ front = "mcp" /\ pc = "await"
    /\ \E outcome \in HandlerOutcomes, now \in Clock :
          /\ result' = outcome
          /\ response' = IF IsExc(outcome) THEN McpExcept(tool_name, outcome, now)
                         ELSE McpSuccess(outcome.returns, now)
    /\ pc' = "done"
    /\ UNCHANGED <<tool_schemas, front, request, tool_name, arguments, project_id,
                   validation_result, call, log>>

\* tool_executor_handler is entered: lines 135-169
HttpReceive ==
    /\ pc = "idle"
    /\ front' = "http"
    /\ \E event \in HttpEvents :
          /\ request' = [event |-> event, context |-> LambdaContext]
          /\ LET framed == HttpFraming(event)
             IN  IF "response" \in DOMAIN framed
                 THEN /\ pc' = "done"
                      /\ response' = framed.response
                      /\ UNCHANGED <<tool_name, arguments, project_id>>
                 ELSE /\ pc' = "lookup"
                      /\ tool_name' = framed.tool_name
                      /\ arguments' = framed.arguments
                      /\ project_id' = framed.project_id
                      /\ UNCHANGED response
    /\ UNCHANGED <<tool_schemas, validation_result, call, result, log>>

\* lines 171-183: the catalog is built anew for the request
HttpLookup ==
    /\ front = "http" /\ pc = "lookup"
    /\ log' = Append(log, "lookup")
    /\ IF InCatalog(get_all_tool_schemas, tool_name)
       THEN /\ pc' = "validate"
            /\ UNCHANGED response
       ELSE /\ pc' = "done"
            /\ response' = HttpNotFound(tool_name)
    /\ UNCHANGED <<tool_schemas, front, request, tool_name, arguments, project_id,
                   validation_result, call, result>>

\* lines 184-194
HttpValidate ==
    /\ front = "http" /\ pc = "validate"
    /\ log' = Append(log, "validate")
    /\ validation_result' =
          validate_tool_arguments(arguments,
                                  Descriptor(get_all_tool_schemas, tool_name.lit).inputSchema)
    /\ IF IsValid(validation_result')
       THEN /\ pc' = "route"
            /\ UNCHANGED response
       ELSE /\ pc' = "done"
            /\ response' = HttpInvalid(validation_result')
    /\ UNCHANGED <<tool_schemas, front, request, tool_name, arguments, project_id,
                   call, result>>

\* what the call of a method gives the caller that does not await it: an
\* `async def` gives its coroutine object, whose body never runs (awaits is
\* what the body would give if it were awaited); a plain method runs to its
\* end
CallResults(routed) ==
    IF routed.is_async /\ ~routed.awaited
    THEN {[returns |-> Coroutine, awaits |-> outcome] : outcome \in HandlerOutcomes}
    ELSE HandlerOutcomes

\* tool_executor_handler(event, context) as one function of the event, the
\* context and what the body of the routed handler method gives when it
\* runs: lines 135-232
tool_executor_handler(event, context, outcome) ==
    LET framed == HttpFraming(event)
    IN  IF Has(framed, "response") THEN framed.response
        ELSE IF ~InCatalog(get_all_tool_schemas, framed.tool_name)
        THEN HttpNotFound(framed.tool_name)
        ELSE LET validation ==
                   validate_tool_arguments(
                       framed.arguments,
                       Descriptor(get_all_tool_schemas, framed.tool_name.lit).inputSchema)
                 routed ==
                   route_and_execute_tool(
                       framed.tool_name,
                       WithContext(framed.arguments, framed.project_id, context))
                 given ==
                   IF routed.is_async /\ ~routed.awaited
                   THEN [returns |-> Coroutine]
                   ELSE outcome
             IN  IF ~IsValid(validation) THEN HttpInvalid(validation)
                 ELSE IF IsExc(routed) THEN HttpExcept(routed, TRUE)
                 ELSE IF IsExc(given) THEN HttpExcept(given, TRUE)
                 ELSE HttpSuccess(given.returns)

\* lines 196-232: context keys, routing, the call, and the response
HttpExecute ==
    /\ front = "http" /\ pc = "route"
    /\ arguments' = WithContext(arguments, project_id, request.context)
    /\ LET routed == route_and_execute_tool(tool_name, arguments')
       IN  IF IsExc(routed)
           THEN /\ response' = HttpExcept(routed, TRUE)
                /\ UNCHANGED <<call, result, log>>
           ELSE /\ call' = routed
                /\ log' = Append(log, "handler")
                /\ \E outcome \in CallResults(routed) :
                      /\ result' = outcome
                      /\ response' = IF IsExc(outcome) THEN HttpExcept(outcome, TRUE)
                                     ELSE HttpSuccess(outcome.returns)
    /\ pc' = "done"
    /\ UNCHANGED <<tool_schemas, front, request, tool_name, project_id, validation_result>>

\* the front end has answered; the next request starts from fresh locals
Return ==
    /\ pc = "done"
    /\ front' = "none"
    /\ pc' = "idle"
    /\ request' = Unbound
    /\ tool_name' = Unbound
    /\ arguments' = Unbound
    /\ project_id' = Unbound
    /\ validation_result' = Unbound
    /\ call' = Unbound
    /\ result' = Unbound
    /\ response' = Unbound
    /\ log' = <<>>
    /\ UNCHANGED tool_schemas

Next ==
    \/ McpReceive
    \/ McpLookup
    \/ McpValidate
    \/ McpRoute
    \/ McpComplete
    \/ HttpReceive
    \/ HttpLookup
    \/ HttpValidate
    \/ HttpExecute
    \/ Return

Spec == Init /\ [][Next]_vars

---------------------------------------------------------------------------
(* validate_tool_arguments on its own, over schemas the catalog does not hold *)

\* the most keys an arguments mapping has
MaxKeys == 2

\* schemas of one field
FieldSchemas ==
    {[type |-> <<"integer">>, minimum |-> 1],
     [type |-> <<"integer">>, multipleOf |-> 0],
     [type |-> <<"string">>, pattern |-> InvalidPattern],
     [type |-> <<"string">>, pattern |-> "ab", minLength |-> 3],
     [type |-> <<"string", "null">>],
     [type |-> <<"array">>, items |-> [type |-> <<"integer">>], uniqueItems |-> TRUE],
     [enum |-> <<PyInt(1), PyStr(<<"a", "b">>)>>],
     [type |-> <<"object">>, required |-> <<"k">>, additionalProperties |-> FALSE]}

\* the properties a schema declares, in order: "a" and "b", either or none
PropertyLists ==
    {<<>>}
    \cup {<<KV("a", fa)>> : fa \in FieldSchemas}
    \cup {<<KV("b", fb)>> : fb \in {[type |-> <<"integer">>]}}
    \cup {<<KV("a", fa), KV("b", fb)>> :
             fa \in FieldSchemas,
             fb \in {[type |-> <<"integer">>], [type |-> <<"integer">>, multipleOf |-> 0]}}

\* the keys a schema dict may lack
WithOptional(schema, required, additional) ==
    LET base == [type |-> <<"object">>, properties |-> schema]
        withRequired ==
          IF required = <<"-">> THEN base
          ELSE [k \in DOMAIN base \cup {"required"} |->
                   IF k = "required" THEN required ELSE base[k]]
    IN  IF additional = "-" THEN withRequired
        ELSE [k \in DOMAIN withRequired \cup {"additionalProperties"} |->
                 IF k = "additionalProperties" THEN additional = "true" ELSE withRequired[k]]

Schemas ==
    {WithOptional(props, required, additional) :
        props \in PropertyLists,
        required \in {<<"-">>, <<"a">>, <<"b", "c">>},
        additional \in {"-", "true", "false"}}

ArgumentValues ==
    {PyNone, PyInt(1), PyBool(TRUE), PyStr(<<"a", "b">>), PyList(<<PyInt(1), PyInt(1)>>),
     EmptyDict}

ArgumentKeys == {"a", "b", "zz"}

RECURSIVE Mappings(_)
\* the mappings of exactly n distinct keys, in every key order
Mappings(n) ==
    IF n = 0 THEN {EmptyDict}
    ELSE UNION {{PyDict(Append(m.pairs, KV(k, v))) :
                    k \in ArgumentKeys \ Keys(m), v \in ArgumentValues} :
                m \in Mappings(n - 1)}

ValidatorRequests ==
    {[schema |-> s, arguments |-> a] :
        s \in Schemas,
        a \in NonMappings \cup UNION {Mappings(n) : n \in 0..MaxKeys}}

InitValidate ==
    /\ tool_schemas = get_all_tool_schemas
    /\ front = "validator"
    /\ pc = "validate"
    /\ request \in ValidatorRequests
    /\ arguments = request.arguments
    /\ tool_name = Unbound
    /\ project_id = Unbound
    /\ validation_result = Unbound
    /\ call = Unbound
    /\ result = Unbound
    /\ response = Unbound
    /\ log = <<>>

\* one call of validate_tool_arguments(arguments, schema)
ValidatorCall ==
    /\ front = "validator" /\ pc = "validate"
    /\ validation_result' = validate_tool_arguments(arguments, request.schema)
    /\ pc' = "done"
    /\ UNCHANGED <<tool_schemas, front, request, tool_name, arguments, project_id,
                   call, result, response, log>>

NextValidate == ValidatorCall

SpecValidate == InitValidate /\ [][NextValidate]_vars

---------------------------------------------------------------------------
(* _validate_field through validate_tool_arguments: one declared field "a" *)
(* and one supplied value, over scalar, array and object schemas            *)

\* the most elements an array value has
MaxItems == 2

Scalars ==
    {PyNone, PyBool(TRUE), PyInt(1), PyInt(3), PyFloat(3),
     PyStr(<<"a", "b">>), PyStr(<<"a", "b", "c">>), PyStr(<<"a", "\n">>)}

\* strs with a scheme and "://": nothing after it, and a host after it
UriValues == {PyStr(<<"a", ":", "/", "/">>), PyStr(<<"a", ":", "/", "/", "b">>)}

FieldValues ==
    Scalars
    \cup UriValues
    \cup {PyList(elems) : elems \in UNION {[1..n -> Scalars] : n \in 0..MaxItems}}
    \cup {PyDict(<<KV("k", v)>>) : v \in Scalars}
    \cup {EmptyDict, PyDict(<<KV("z", PyInt(1))>>)}

\* schemas of scalar fields: typed and untyped, with and without constraints
\* and enum
LeafSchemas ==
    {[type |-> <<"integer">>, minimum |-> 2],
     [type |-> <<"number">>, maximum |-> 1],
     [type |-> <<"boolean">>],
     [type |-> <<"string">>, minLength |-> 3, pattern |-> "ab"],
     [type |-> <<"string">>, pattern |-> "^[a-zA-Z0-9_-]+$"],
     [type |-> <<"string">>, format |-> "email"],
     [type |-> <<"string">>, format |-> "uri"],
     [type |-> <<"string", "null">>, maxLength |-> 2],
     [enum |-> <<PyInt(1), PyStr(<<"a", "b">>)>>],
     [type |-> <<"integer">>, minimum |-> 2, enum |-> <<PyInt(1)>>],
     [type |-> <<"string">>, minLength |-> 3, enum |-> <<PyStr(<<"a", "b">>)>>]}

NodeSchemas ==
    LeafSchemas
    \cup {[type |-> <<"array">>, minItems |-> 1, items |-> leaf, uniqueItems |-> TRUE] :
             leaf \in LeafSchemas}
    \cup {[type |-> <<"object">>, required |-> <<"k">>,
           properties |-> <<KV("k", leaf)>>, additionalProperties |-> FALSE] :
             leaf \in LeafSchemas}

\* an object schema declaring k, with additionalProperties left out, true
\* and false
OpenSchemas(declared) ==
    LET omitting == [type |-> <<"object">>, properties |-> declared]
    IN  {omitting,
         [type |-> <<"object">>, properties |-> declared, additionalProperties |-> TRUE],
         [type |-> <<"object">>, properties |-> declared, additionalProperties |-> FALSE]}

\* an undeclared key beside a, and an undeclared key in the object under a,
\* each with a value of its own
UndeclaredRequests ==
    {[schema |-> top,
      arguments |-> PyDict(<<KV("a", PyDict(<<KV("k", PyBool(TRUE)), KV("z", inner)>>)),
                             KV("zz", outer)>>)] :
        top \in UNION {OpenSchemas(<<KV("a", nested)>>) :
                          nested \in OpenSchemas(<<KV("k", [type |-> <<"boolean">>])>>)},
        inner \in {PyInt(1), PyNone},
        outer \in {PyInt(1), EmptyDict}}

\* objects in an array and arrays in an object: the fields two levels below a
DeepRequests ==
    LET objects == [type |-> <<"array">>,
                    items |-> [type |-> <<"object">>, required |-> <<"k">>,
                               properties |-> <<KV("k", [type |-> <<"integer">>, minimum |-> 2])>>]]
        arrays == [type |-> <<"object">>,
                   properties |-> <<KV("k", [type |-> <<"array">>,
                                             items |-> [type |-> <<"string">>, minLength |-> 3]])>>]
        holding(v) == PyDict(<<KV("k", v)>>)
    IN  {[schema |-> [type |-> <<"object">>, properties |-> <<KV("a", objects)>>],
          arguments |-> PyDict(<<KV("a", PyList(elems))>>)] :
            elems \in UNION {[1..n -> {holding(PyInt(3)), holding(PyInt(1)), EmptyDict}] :
                               n \in 1..2}}
        \cup {[schema |-> [type |-> <<"object">>, properties |-> <<KV("a", arrays)>>],
               arguments |-> PyDict(<<KV("a", holding(PyList(elems)))>>)] :
                 elems \in UNION {[1..n -> {PyStr(<<"a", "b">>), PyStr(<<"a", "b", "c">>)}] :
                                    n \in 0..2}}

FieldRequests ==
    {[schema |-> [type |-> <<"object">>, properties |-> <<KV("a", node)>>],
      arguments |-> PyDict(<<KV("a", value)>>)] :
        node \in NodeSchemas, value \in FieldValues}
    \cup UndeclaredRequests
    \cup DeepRequests

InitField ==
    /\ tool_schemas = get_all_tool_schemas
    /\ front = "validator"
    /\ pc = "validate"
    /\ request \in FieldRequests
    /\ arguments = request.arguments
    /\ tool_name = Unbound
    /\ project_id = Unbound
    /\ validation_result = Unbound
    /\ call = Unbound
    /\ result = Unbound
    /\ response = Unbound
    /\ log = <<>>

SpecField == InitField /\ [][NextValidate]_vars

---------------------------------------------------------------------------
(* format_success_response on its own, applied to a result and then to its *)
(* own output, as handle_call_tool applies it to what a handler formatted  *)

\* the results formatted: scalars, strs that are and are not JSON documents,
\* lists, dicts with and without a status key, and what json.dumps rejects
FormatResults ==
    FieldValues
    \cup {Lit("plain text"), PyStr(<<"4", "2">>),
          JsonText(PyDict(<<KV("temp", PyInt(1))>>)),
          PyDict(<<KV("temp", PyInt(1))>>),
          PyDict(<<KV("status", Lit("success")), KV("data", PyInt(1))>>),
          PyDict(<<KV("status", Lit("error")), KV("error", Lit("upstream request failed"))>>),
          Coroutine, PyList(<<Coroutine>>), PyDict(<<KV("task", Coroutine)>>)}

InitFormat ==
    /\ tool_schemas = get_all_tool_schemas
    /\ front = "formatter"
    /\ pc = "format"
    /\ request \in FormatResults
    /\ tool_name = Unbound
    /\ arguments = Unbound
    /\ project_id = Unbound
    /\ validation_result = Unbound
    /\ call = Unbound
    /\ result = Unbound
    /\ response = Unbound
    /\ log = <<>>

\* format_success_response(result)
FormatCall ==
    /\ front = "formatter" /\ pc = "format"
    /\ \E now \in Clock : result' = format_success_response(request, now)
    /\ pc' = "formatted"
    /\ UNCHANGED <<tool_schemas, front, request, tool_name, arguments, project_id,
                   validation_result, call, response, log>>

\* format_success_response applied to the text it returned
FormatAgain ==
    /\ front = "formatter" /\ pc = "formatted"
    /\ \E now \in Clock : response' = format_success_response(result, now)
    /\ pc' = "done"
    /\ UNCHANGED <<tool_schemas, front, request, tool_name, arguments, project_id,
                   validation_result, call, result, log>>

NextFormat == FormatCall \/ FormatAgain

SpecFormat == InitFormat /\ [][NextFormat]_vars

---------------------------------------------------------------------------
(* Concurrent dispatches.  Every variable but tool_schemas holds one value *)
(* per dispatch: the locals of that call of handle_call_tool (a task of    *)
(* the event loop, which leaves a task only at an await) or of             *)
(* tool_executor_handler (a thread, which can be left after any statement).*)
(* tool_schemas is the one catalog object all MCP dispatches read.         *)

\* the dispatches in flight at once
MaxDispatches == 2

Dispatches == 1..MaxDispatches

\* a known tool with valid and with invalid arguments on either front end,
\* and an unknown tool over MCP
ConcurrentRequests ==
    LET valid == BaseArguments(Descriptor(get_all_tool_schemas, "get_coordinates").inputSchema)
        calls == {[name |-> Lit("get_coordinates"), arguments |-> valid],
                  [name |-> Lit("get_coordinates"), arguments |-> EmptyDict]}
        unknown == [name |-> Lit("nonexistent_tool"), arguments |-> EmptyDict]
    IN  {[front |-> "mcp", name |-> c.name, arguments |-> c.arguments] : c \in calls \cup {unknown}}
        \cup {[front |-> "http",
               event |-> EventOf(ToolPath(c.name), JsonText(c.arguments), ProjectHeaders, Absent),
               context |-> LambdaContext] : c \in calls}

\* a handler that returns a list, and one that raises
ConcurrentOutcomes ==
    {outcome \in HandlerOutcomes : IsExc(outcome) \/ outcome.returns = PyList(<<PyInt(1), PyInt(2)>>)}

\* every dispatch reading the locals of dispatch 1, as if name and arguments
\* were attributes of the one server object
Shared(locals, d) == locals[1]

\* a dispatch reads its own locals
Local(locals, d) == locals[d]

\* the dispatches other than d that have entered and not yet returned
InFlight(d) == {e \in Dispatches \ {d} : pc[e] \notin {"idle", "done"}}

\* the dispatches that were in flight at some step of dispatch d
Logged(d) == [log EXCEPT ![d] = @ \cup InFlight(d)]

InitConcurrent ==
    /\ tool_schemas = get_all_tool_schemas
    /\ front = [d \in Dispatches |-> "none"]
    /\ pc = [d \in Dispatches |-> "idle"]
    /\ request = [d \in Dispatches |-> Unbound]
    /\ tool_name = [d \in Dispatches |-> Unbound]
    /\ arguments = [d \in Dispatches |-> Unbound]
    /\ project_id = [d \in Dispatches |-> Unbound]
    /\ validation_result = [d \in Dispatches |-> Unbound]
    /\ call = [d \in Dispatches |-> Unbound]
    /\ result = [d \in Dispatches |-> Unbound]
    /\ response = [d \in Dispatches |-> Unbound]
    /\ log = [d \in Dispatches |-> {}]

\* handle_call_tool from its entry to the await of the handler method, or to
\* the return before it: lines 114-141
McpEnter(d) ==
    /\ pc[d] = "idle"
    /\ \E r \in ConcurrentRequests :
          /\ r.front = "mcp"
          /\ front' = [front EXCEPT ![d] = "mcp"]
          /\ request' = [request EXCEPT ![d] = r]
          /\ tool_name' = [tool_name EXCEPT ![d] = r.name]
          /\ arguments' = [arguments EXCEPT ![d] = r.arguments]
          /\ LET known == InCatalog(tool_schemas, r.name)
                 validation ==
                   validate_tool_arguments(OrEmpty(r.arguments),
                                           Descriptor(tool_schemas, r.name.lit).inputSchema)
                 routed == _route_tool_call(r.name, OrEmpty(r.arguments))
             IN  IF ~known
                 THEN /\ \E now \in Clock :
                            response' = [response EXCEPT ![d] = McpUnknownTool(r.name, now)]
                      /\ pc' = [pc EXCEPT ![d] = "done"]
                      /\ UNCHANGED <<validation_result, call>>
                 ELSE IF ~IsValid(validation)
                 THEN /\ \E now \in Clock :
                            response' = [response EXCEPT ![d] = McpInvalid(validation, now)]
                      /\ pc' = [pc EXCEPT ![d] = "done"]
                      /\ validation_result' = [validation_result EXCEPT ![d] = validation]
                      /\ UNCHANGED call
                 ELSE IF IsExc(routed)
                 THEN /\ \E now \in Clock :
                            response' = [response EXCEPT ![d] = McpExcept(r.name, routed, now)]
                      /\ pc' = [pc EXCEPT ![d] = "done"]
                      /\ validation_result' = [validation_result EXCEPT ![d] = validation]
                      /\ UNCHANGED call
                 ELSE /\ pc' = [pc EXCEPT ![d] = "await"]
                      /\ validation_result' = [validation_result EXCEPT ![d] = validation]
                      /\ call' = [call EXCEPT ![d] = routed]
                      /\ UNCHANGED response
    /\ log' = Logged(d)
    /\ UNCHANGED <<tool_schemas, project_id, result>>

\* the awaited handler method finishes and handle_call_tool returns: lines
\* 141-155
McpResume(d) ==
    /\ front[d] = "mcp" /\ pc[d] = "await"
    /\ \E outcome \in ConcurrentOutcomes, now \in Clock :
          /\ result' = [result EXCEPT ![d] = outcome]
          /\ response' =
                [response EXCEPT ![d] =
                    IF IsExc(outcome) THEN McpExcept(Local(tool_name, d), outcome, now)
                    ELSE McpSuccess(outcome.returns, now)]
    /\ pc' = [pc EXCEPT ![d] = "done"]
    /\ log' = Logged(d)
    /\ UNCHANGED <<tool_schemas, front, request, tool_name, arguments, project_id,
                   validation_result, call>>

\* tool_executor_handler, lines 135-169
HttpEnter(d) ==
    /\ pc[d] = "idle"
    /\ \E r \in ConcurrentRequests :
          /\ r.front = "http"
          /\ front' = [front EXCEPT ![d] = "http"]
          /\ request' = [request EXCEPT ![d] = r]
          /\ LET framed == HttpFraming(r.event)
             IN  IF Has(framed, "response")
                 THEN /\ pc' = [pc EXCEPT ![d] = "done"]
                      /\ response' = [response EXCEPT ![d] = framed.response]
                      /\ UNCHANGED <<tool_name, arguments, project_id>>
                 ELSE /\ pc' = [pc EXCEPT ![d] = "lookup"]
                      /\ tool_name' = [tool_name EXCEPT ![d] = framed.tool_name]
                      /\ arguments' = [arguments EXCEPT ![d] = framed.arguments]
                      /\ project_id' = [project_id EXCEPT ![d] = framed.project_id]
                      /\ UNCHANGED response
    /\ log' = Logged(d)
    /\ UNCHANGED <<tool_schemas, validation_result, call, result>>

\* lines 171-194: the catalog built for this request, and the validation
HttpCheck(d) ==
    /\ front[d] = "http" /\ pc[d] = "lookup"
    /\ LET local_schemas == get_all_tool_schemas
           name == Local(tool_name, d)
           validation ==
             validate_tool_arguments(Local(arguments, d),
                                     Descriptor(local_schemas, name.lit).inputSchema)
       IN  IF ~InCatalog(local_schemas, name)
           THEN /\ response' = [response EXCEPT ![d] = HttpNotFound(name)]
                /\ pc' = [pc EXCEPT ![d] = "done"]
                /\ UNCHANGED validation_result
           ELSE /\ validation_result' = [validation_result EXCEPT ![d] = validation]
                /\ IF IsValid(validation)
                   THEN /\ pc' = [pc EXCEPT ![d] = "route"]
                        /\ UNCHANGED response
                   ELSE /\ pc' = [pc EXCEPT ![d] = "done"]
                        /\ response' = [response EXCEPT ![d] = HttpInvalid(validation)]
    /\ log' = Logged(d)
    /\ UNCHANGED <<tool_schemas, front, request, tool_name, arguments, project_id,
                   call, result>>

\* lines 196-232
HttpRun(d) ==
    /\ front[d] = "http" /\ pc[d] = "route"
    /\ LET with == WithContext(Local(arguments, d), project_id[d], request[d].context)
           routed == route_and_execute_tool(Local(tool_name, d), with)
       IN  /\ arguments' = [arguments EXCEPT ![d] = with]
           /\ IF IsExc(routed)
              THEN /\ response' = [response EXCEPT ![d] = HttpExcept(routed, TRUE)]
                   /\ UNCHANGED <<call, result>>
              ELSE /\ call' = [call EXCEPT ![d] = routed]
                   /\ \E given \in CallResults(routed) :
                         /\ (IF Has(given, "awaits") THEN given.awaits ELSE given)
                               \in ConcurrentOutcomes
                         /\ result' = [result EXCEPT ![d] = given]
                         /\ response' =
                               [response EXCEPT ![d] =
                                   IF IsExc(given) THEN HttpExcept(given, TRUE)
                                   ELSE HttpSuccess(given.returns)]
    /\ pc' = [pc EXCEPT ![d] = "done"]
    /\ log' = Logged(d)
    /\ UNCHANGED <<tool_schemas, front, request, tool_name, project_id, validation_result>>

NextConcurrent ==
    \E d \in Dispatches :
        \/ McpEnter(d)
        \/ McpResume(d)
        \/ HttpEnter(d)
        \/ HttpCheck(d)
        \/ HttpRun(d)

SpecConcurrent == InitConcurrent /\ [][NextConcurrent]_vars

---------------------------------------------------------------------------
(* Properties *)

\* the front end has answered or raised
Answered == pc = "done" /\ front \in {"mcp", "http"}

\* the envelope the caller reads out of a returned response
Envelope ==
    IF front = "mcp" THEN json_loads(response.content[1].text)
    ELSE json_loads(response.body)

EnvelopeStatus == IF "status" \in Keys(Envelope) THEN DictGet(Envelope, "status") ELSE PyNone

\* error.type and error.message of an error envelope
ErrorField(key) ==
    IF "error" \in Keys(Envelope) /\ key \in Keys(DictGet(Envelope, "error"))
    THEN DictGet(DictGet(Envelope, "error"), key)
    ELSE PyNone

\* the validator call has returned
Validated == pc = "done" /\ front = "validator"

RequiredOf(schema) == IF Has(schema, "required") THEN SeqSet(schema.required) ELSE {}

\* the result is the except clause's: the single "Validation error" entry
InternalFailure(validation) ==
    /\ Len(validation.errors) = 1
    /\ validation.errors[1].fmt = "Validation error: {}"

UndeclaredKeys(args, schema) ==
    IF args.kind = "dict" THEN Keys(args) \ PropNames(schema) ELSE {}

UnknownFieldError(key) == FStr("Unknown field: '{}'", <<Lit(key)>>)

ForbidsAdditional(schema) ==
    Has(schema, "additionalProperties") /\ ~schema.additionalProperties

\* C1: whenever validate_tool_arguments(A, S) returns valid = true, every
\* name listed in S.required is a key of the mapping A
C1_ValidHasRequired ==
    (Validated /\ validation_result.valid)
        => /\ request.arguments.kind = "dict"
           /\ RequiredOf(request.schema) \subseteq Keys(request.arguments)

\* C1 witness: a valid result for a schema that requires a key
C1_Witness ==
    /\ Validated
    /\ validation_result.valid
    /\ RequiredOf(request.schema) # {}

\* C2 as stated: with additionalProperties false, every undeclared key of A
\* has its "Unknown field" error in the returned list, whatever else A and S hold
C2_UnknownFieldAlways ==
    (Validated /\ ForbidsAdditional(request.schema))
        => \A key \in UndeclaredKeys(request.arguments, request.schema) :
              UnknownFieldError(key) \in SeqSet(validation_result.errors)

\* C2 amended: with additionalProperties false, every undeclared key of A has
\* its "Unknown field" error in the returned list, unless validation ended in
\* the except clause, whose single "Validation error" entry replaces the list
C2_UnknownFieldUnlessException ==
    (Validated /\ ForbidsAdditional(request.schema)
               /\ ~InternalFailure(validation_result))
        => \A key \in UndeclaredKeys(request.arguments, request.schema) :
              UnknownFieldError(key) \in SeqSet(validation_result.errors)

\* C2 witness: an undeclared key reported next to the error of another field
C2_Witness ==
    /\ Validated
    /\ ForbidsAdditional(request.schema)
    /\ UnknownFieldError("zz") \in SeqSet(validation_result.errors)
    /\ Len(validation_result.errors) > 1

\* C3: each front end answers every request with one response envelope and
\* raises nothing to its caller
C3_OneEnvelopeNeverRaises ==
    Answered
        => /\ ~IsExc(response)
           /\ Envelope.kind = "dict"
           /\ EnvelopeStatus \in {Lit("success"), Lit("error")}

\* C4: the steps of a dispatch run in the order lookup, validation, handler;
\* validation runs only for a name in the catalog and a handler is called
\* only after validation returned valid = true
C4_LookupValidateThenHandler ==
    /\ \E n \in 0..3 : log = SubSeq(<<"lookup", "validate", "handler">>, 1, n)
    /\ "validate" \in SeqSet(log) => InCatalog(get_all_tool_schemas, tool_name)
    /\ "handler" \in SeqSet(log) => validation_result.valid
    /\ call # Unbound => "handler" \in SeqSet(log)

\* C4 witness: a handler was called at the end of the three steps
C4_Witness ==
    /\ Answered
    /\ call # Unbound
    /\ log = <<"lookup", "validate", "handler">>

\* C5: validate_tool_arguments always returns a result, and when its body
\* raised, the result is valid = false with the one error
\* "Validation error: <message>"
C5_ExceptionIsOneError ==
    Validated
        => /\ DOMAIN validation_result = {"valid", "errors"}
           /\ \A i \in 1..Len(validation_result.errors) :
                 validation_result.errors[i].kind = "str"
           /\ LET errors == ValidationBody(request.arguments, request.schema)
              IN  Raised(errors)
                    => validation_result =
                         [valid |-> FALSE,
                          errors |-> <<FStr("Validation error: {}",
                                            <<errors[Len(errors)].message>>)>>]

\* C5 witness: the body raised after it had gathered an error
C5_Witness ==
    /\ Validated
    /\ LET errors == ValidationBody(request.arguments, request.schema)
       IN  Raised(errors) /\ Len(errors) > 1

\* C6: the returned valid flag is true exactly when the returned errors
\* list is empty
C6_ValidIffNoErrors ==
    Validated => (validation_result.valid <=> validation_result.errors = <<>>)

\* C6 witness: a result of the except clause
C6_Witness ==
    /\ Validated
    /\ InternalFailure(validation_result)
    /\ ~validation_result.valid

\* the dispatch ended at the catalog lookup: the name is not in the catalog
LookupMissed == Answered /\ log = <<"lookup">>

\* the dispatch ended at the validation pass
ValidationFailed ==
    Answered /\ log = <<"lookup", "validate">> /\ ~validation_result.valid

\* the handler step failed: the routed call raised before or in the handler,
\* or the handler gave back an error envelope
HandlerRaised ==
    /\ Answered
    /\ validation_result # Unbound
    /\ validation_result.valid
    /\ \/ call = Unbound
       \/ result # Unbound /\ IsExc(result)

HandlerReturnedFailure ==
    /\ Answered
    /\ result # Unbound
    /\ ~IsExc(result)
    /\ result.returns.kind = "str"
    /\ IsJson(result.returns)
    /\ json_loads(result.returns).kind = "dict"
    /\ "status" \in Keys(json_loads(result.returns))
    /\ DictGet(json_loads(result.returns), "status") = Lit("error")

\* the message is an f-string that has the tool name substituted into it
NamesTool(message) ==
    /\ "args" \in DOMAIN message
    /\ \E i \in 1..Len(message.args) : message.args[i] = tool_name

\* C7: a name absent from the catalog is answered, on both front ends, with
\* an error envelope of kind NotFound whose message names the tool
C7_UnknownToolIsNotFound ==
    LookupMissed
        => /\ ~IsExc(response)
           /\ EnvelopeStatus = Lit("error")
           /\ ErrorField("type") = Lit("NotFound")
           /\ NamesTool(ErrorField("message"))

\* C8: arguments that fail validation are answered, on both front ends, with
\* an error envelope of kind ValidationError whose details are the ordered
\* error list of the validation pass
C8_InvalidIsValidationError ==
    ValidationFailed
        => /\ ~IsExc(response)
           /\ EnvelopeStatus = Lit("error")
           /\ ErrorField("type") = Lit("ValidationError")
           /\ ErrorField("details") = PyList(validation_result.errors)

\* C9: a failure of the handler step is answered with an error envelope of
\* kind InternalError, or of the kind the handler's own failure value
\* declares, and never with a success envelope
C9_HandlerFailureIsInternalError ==
    /\ HandlerRaised
         => /\ ~IsExc(response)
            /\ EnvelopeStatus = Lit("error")
            /\ ErrorField("type") = Lit("InternalError")
    /\ HandlerReturnedFailure
         => /\ ~IsExc(response)
            /\ EnvelopeStatus = Lit("error")
            /\ ErrorField("type") \in
                 {Lit("InternalError"),
                  DictGet(DictGet(json_loads(result.returns), "error"), "type")}

\* an HTTP response was returned
HttpAnswered == Answered /\ front = "http" /\ ~IsExc(response)

Part(envelope, key) ==
    IF envelope.kind = "dict" /\ key \in Keys(envelope) THEN DictGet(envelope, key) ELSE Absent

ErrorPart(envelope, key) == Part(Part(envelope, "error"), key)

\* the same status, error kind, data and details
SameEnvelope(a, b) ==
    /\ Part(a, "status") = Part(b, "status")
    /\ ErrorPart(a, "type") = ErrorPart(b, "type")
    /\ Part(a, "data") = Part(b, "data")
    /\ ErrorPart(a, "details") = ErrorPart(b, "details")

\* the HTTP front end took (tool name, arguments) out of the event and
\* answered
HttpDispatched == HttpAnswered /\ log # <<>>

\* what the handler method of the answered request gives when its body
\* runs: the outcome drawn for the call, or any outcome when no call was made
OutcomesOfCall ==
    IF result = Unbound THEN HandlerOutcomes
    ELSE IF "awaits" \in DOMAIN result THEN {result.awaits}
    ELSE {result}

\* C11: for the tool name and arguments the HTTP front end took out of its
\* event, and the same handler outcome, the envelope of the HTTP response has
\* the same status, error kind, data and details as the envelope
\* handle_call_tool returns
C11_FrontEndsAgree ==
    HttpDispatched
        => \A outcome \in OutcomesOfCall, now \in Clock :
              SameEnvelope(
                  Envelope,
                  json_loads(handle_call_tool(tool_schemas, tool_name,
                                              HttpFraming(request.event).arguments,
                                              outcome, now).content[1].text))


\* the schema type names a value's runtime type goes by: an int is an
\* integer and a number, a bool is a boolean only
JsonTypes(value) ==
    CASE value.kind = "null" -> {"null"}
      [] value.kind = "bool" -> {"boolean"}
      [] value.kind = "int" -> {"integer", "number"}
      [] value.kind = "float" -> {"number"}
      [] value.kind = "str" -> {"string"}
      [] value.kind = "list" -> {"array"}
      [] value.kind = "dict" -> {"object"}

\* a supplied, non-null value whose runtime type is none of the declared ones
TypeMismatch(value, schema) ==
    /\ Has(schema, "type")
    /\ value.kind # "null"
    /\ JsonTypes(value) \cap SeqSet(schema.type) = {}

RECURSIVE FieldsOf(_, _, _)
\* the field and the fields below it: the elements of an array with an items
\* schema and the declared properties of an object, each with its label
FieldsOf(value, schema, label) ==
    {[label |-> label, value |-> value, schema |-> schema]}
    \cup (IF value.kind = "list" /\ Has(schema, "items") /\ ~TypeMismatch(value, schema)
          THEN UNION {FieldsOf(value.elems[i], schema.items, IndexLabel(label, i)) :
                         i \in 1..Len(value.elems)}
          ELSE {})
    \cup (IF value.kind = "dict" /\ Has(schema, "properties") /\ ~TypeMismatch(value, schema)
          THEN UNION {FieldsOf(DictGet(value, k), PropSchema(schema, k), PropLabel(label, k)) :
                         k \in Keys(value) \cap PropNames(schema)}
          ELSE {})

\* every field of the validated arguments that the schema declares
PassFields ==
    IF arguments.kind # "dict" THEN {}
    ELSE UNION {FieldsOf(DictGet(arguments, k), PropSchema(request.schema, k), Lit(k)) :
                   k \in Keys(arguments) \cap PropNames(request.schema)}

\* the errors of the pass that carry the label, in order
ErrorsAt(label) ==
    SelectSeq(validation_result.errors, LAMBDA e : Has(e, "args") /\ e.args[1] = label)

\* the pass ran to its end: no exception was turned into "Validation error"
Completed == Validated /\ ~InternalFailure(validation_result)

TypeErrorOf(f) ==
    FStr("Field '{}' must be of type {}, got {}",
         <<f.label, PyList([i \in 1..Len(f.schema.type) |-> Lit(f.schema.type[i])]),
           Lit(TypeName(f.value))>>)

\* C12: in a pass that runs to its end, every field (top-level, array
\* element or nested property) whose non-null value has a runtime type that
\* is none of its declared types gets exactly one error under its label, the
\* type error, and so no length, range, pattern, format, item or property
\* error
C12_TypeMismatchIsOneTypeError ==
    Completed
        => \A f \in PassFields :
              TypeMismatch(f.value, f.schema) => ErrorsAt(f.label) = <<TypeErrorOf(f)>>


\* the field declares enum and its value equals (==) none of the literals
OutsideEnum(f) ==
    /\ Has(f.schema, "enum")
    /\ \A i \in 1..Len(f.schema.enum) : ~PyEq(f.value, f.schema.enum[i])

EnumErrorOf(f) ==
    FStr("Field '{}' must be one of {}, got '{}'",
         <<f.label, PyList(f.schema.enum), f.value>>)

\* the field was stopped at its null or type check
ShortCircuited(f) ==
    \/ f.value.kind = "null"
    \/ Has(f.schema, "type") /\ TypeErrorOf(f) \in SeqSet(ErrorsAt(f.label))

\* C13 as claimed: in a pass that runs to its end, every supplied value of a
\* field declaring enum that equals none of the literals gets a "must be one
\* of" error, whatever the type and range checks gave
C13_EnumAlwaysChecked ==
    Completed
        => \A f \in PassFields :
              OutsideEnum(f) => EnumErrorOf(f) \in SeqSet(ErrorsAt(f.label))

\* C13 amended: in a pass that runs to its end, every non-null value that
\* got no type error and equals none of the literals of its field's enum
\* gets the "must be one of" error, as the field's last error, whatever the
\* length, range, pattern, format, item and property checks gave; a null
\* value and a value with a type error get no enum error
C13_EnumCheckedPastTypeCheck ==
    Completed
        => \A f \in PassFields :
              OutsideEnum(f)
                 => IF ShortCircuited(f)
                    THEN EnumErrorOf(f) \notin SeqSet(ErrorsAt(f.label))
                    ELSE /\ ErrorsAt(f.label) # <<>>
                         /\ ErrorsAt(f.label)[Len(ErrorsAt(f.label))] = EnumErrorOf(f)

\* C13 witness: a value outside the enum that also fails a length or range
\* check, both reported, and a value outside the enum stopped at its type
\* check
C13_Witness ==
    /\ Completed
    /\ \E f \in PassFields :
          /\ OutsideEnum(f)
          /\ Len(ErrorsAt(f.label)) = 2
          /\ ErrorsAt(f.label)[2] = EnumErrorOf(f)


\* the place of an error in the claimed order: missing required fields,
\* then violations of declared fields, then unknown fields
Rank(error) ==
    CASE error.fmt = "Missing required field: '{}'" -> 1
      [] error.fmt = "Unknown field: '{}'" -> 3
      [] OTHER -> 2

RECURSIVE TopKey(_)
\* the argument key a field label starts with
TopKey(label) == IF Has(label, "lit") THEN label.lit ELSE TopKey(label.args[1])

\* the required names the arguments lack, in the order of schema.required
MissingNames ==
    SelectSeq(IF Has(request.schema, "required") THEN request.schema.required ELSE <<>>,
              LAMBDA name : name \notin Keys(arguments))

\* C14: the errors of a pass that runs to its end are the missing-required
\* errors in the order of schema.required, then the violations of supplied
\* declared fields in argument order, then the unknown-field complaints: no
\* "Unknown field" error precedes a per-field violation
C14_ErrorsOrdered ==
    (Completed /\ arguments.kind = "dict")
        => LET errors == validation_result.errors
               missing == SelectSeq(errors, LAMBDA e : Rank(e) = 1)
           IN  /\ \A i, j \in 1..Len(errors) : i < j => Rank(errors[i]) <= Rank(errors[j])
               /\ missing = [i \in 1..Len(MissingNames) |->
                                FStr("Missing required field: '{}'", <<Lit(MissingNames[i])>>)]
               /\ \A i, j \in 1..Len(errors) :
                     (i < j /\ Rank(errors[i]) = 2 /\ Rank(errors[j]) = 2)
                        => KeyIndex(arguments, TopKey(errors[i].args[1]))
                              <= KeyIndex(arguments, TopKey(errors[j].args[1]))


\* the pattern matches the whole value: a match that starts at the first
\* character ends after the last
MatchesWhole(pattern, chars) == Len(chars) + 1 \in ReEnds(re_compile(pattern), chars, 1)

PatternErrorOf(f) == FStr("Field '{}' does not match required pattern", <<f.label>>)

\* C15: in a pass that runs to its end, every str value of a field with a
\* pattern that got past the type check and that the pattern does not match
\* as a whole, a value of which only a leading part matches included, gets
\* the "does not match required pattern" error
C15_PatternMatchesWholeValue ==
    Completed
        => \A f \in PassFields :
              (/\ f.value.kind = "str"
               /\ Has(f.schema, "pattern")
               /\ ~ShortCircuited(f)
               /\ ~MatchesWhole(f.schema.pattern, f.value.chars))
                 => PatternErrorOf(f) \in SeqSet(ErrorsAt(f.label))


CannotBeNullOf(f) == FStr("Field '{}' cannot be null", <<f.label>>)

\* C16: in a pass that runs to its end, a field (top-level, array element or
\* nested property) supplied as null gets no error when "null" is among its
\* declared types, and otherwise, an untyped field included, exactly the one
\* error "Field '<name>' cannot be null": no type, constraint or enum error
C16_NullOnlyIfDeclared ==
    Completed
        => \A f \in PassFields :
              f.value.kind = "null"
                 => ErrorsAt(f.label) =
                       IF Has(f.schema, "type") /\ "null" \in SeqSet(f.schema.type)
                       THEN <<>>
                       ELSE <<CannotBeNullOf(f)>>

\* C16 witness: a null for an untyped field whose enum does not hold it,
\* answered with the one "cannot be null" error
C16_Witness ==
    /\ Completed
    /\ \E f \in PassFields :
          /\ f.value.kind = "null"
          /\ ~Has(f.schema, "type")
          /\ OutsideEnum(f)
          /\ validation_result.errors = <<CannotBeNullOf(f)>>


\* format_success_response has returned / has returned for its own output
Formatted == front = "formatter" /\ pc \in {"formatted", "done"}

Reformatted == front = "formatter" /\ pc = "done"

\* a dict carrying a status key
EnvelopeShaped(v) == v.kind = "dict" /\ "status" \in Keys(v)

\* C17: the formatter applied to its own output, at any later time, returns
\* that output unchanged: a formatted result is not wrapped a second time
C17_FormatIdempotent ==
    Reformatted => response = result

\* C17 witness: a result without a status key was wrapped once, and the
\* second application returned the wrapping unchanged
C17_Witness ==
    /\ Reformatted
    /\ request.kind = "dict"
    /\ ~EnvelopeShaped(request)
    /\ Part(json_loads(result), "data") = request
    /\ response = result


\* a str holding the JSON text of a dict that carries a status key
EnvelopeText(v) ==
    /\ v.kind = "str"
    /\ IsJson(v)
    /\ EnvelopeShaped(json_loads(v))

\* C18: every result json.dumps accepts that is no list and not shaped like
\* an envelope (no dict with a status key, nor the JSON text of one), every
\* other str included, is returned as the JSON text of a success envelope
\* whose data is the result
C18_OtherResultsWrappedVerbatim ==
    (/\ Formatted
     /\ request.kind # "list"
     /\ ~EnvelopeShaped(request)
     /\ ~EnvelopeText(request)
     /\ Serializable(request))
        => /\ Has(result, "json")
           /\ Part(result.json, "status") = Lit("success")
           /\ Part(result.json, "data") = request


\* what the handler method of the answered call gives when its body runs
HandlerOutcome == IF Has(result, "awaits") THEN result.awaits ELSE result

\* the tool exists, the arguments are valid, and the handler returns a list
HandlerReturnedList ==
    /\ Answered
    /\ result # Unbound
    /\ ~IsExc(HandlerOutcome)
    /\ HandlerOutcome.returns.kind = "list"

\* C19: when the handler of a valid call returns a list of n items, the
\* front end answers with a success envelope whose data is that list and
\* whose count is n
C19_ListIsDataWithCount ==
    HandlerReturnedList
        => /\ ~IsExc(response)
           /\ EnvelopeStatus = Lit("success")
           /\ Part(Envelope, "data") = HandlerOutcome.returns
           /\ Part(Envelope, "count") = PyInt(Len(HandlerOutcome.returns.elems))


\* C20: every envelope a front end returns, on every path (not found, bad
\* request, validation failure, handler failure, handler success,
\* pass-through of an already shaped result), carries a timestamp field
C20_EveryEnvelopeHasTimestamp ==
    (Answered /\ ~IsExc(response))
        => Part(Envelope, "timestamp") # Absent


\* the event names no tool: no pathParameters, a null one, or one whose
\* tool_name is missing, null or empty
ToolNameMissing(event) ==
    LET path_params == Part(event, "pathParameters")
    IN  \/ path_params.kind # "dict"
        \/ Part(path_params, "tool_name") = Absent
        \/ ~Truthy(Part(path_params, "tool_name"))

\* the event's body is a str that is no JSON document
BodyUnparseable(event) ==
    /\ Part(event, "body").kind = "str"
    /\ ~IsJson(Part(event, "body"))

MalformedFraming(event) == ToolNameMissing(event) \/ BodyUnparseable(event)

\* C21: an HTTP request with malformed framing (no tool name, or a body
\* that is no JSON) is answered with a BadRequest error envelope, status
\* 400, and no catalog lookup, validation pass or handler call was made
C21_MalformedFramingIsBadRequest ==
    (Answered /\ front = "http" /\ MalformedFraming(request.event))
        => /\ ~IsExc(response)
           /\ response.statusCode = 400
           /\ EnvelopeStatus = Lit("error")
           /\ ErrorField("type") = Lit("BadRequest")
           /\ log = <<>>
           /\ validation_result = Unbound
           /\ call = Unbound


\* what the handler method of dispatch d gives when its body runs: the
\* outcome drawn for its call, or any outcome when no call was made
OutcomesOf(d) ==
    IF result[d] = Unbound THEN ConcurrentOutcomes
    ELSE IF Has(result[d], "awaits") THEN {result[d].awaits}
    ELSE {result[d]}

\* the responses of the request of dispatch d when it is run alone
AloneResponses(d) ==
    IF front[d] = "mcp"
    THEN {handle_call_tool(get_all_tool_schemas, request[d].name, request[d].arguments,
                           outcome, now) :
             outcome \in OutcomesOf(d), now \in Clock}
    ELSE {tool_executor_handler(request[d].event, request[d].context, outcome) :
             outcome \in OutcomesOf(d)}

\* C22: in every interleaving of the dispatches, each dispatch that has
\* returned gave the response its request gets when run alone with the same
\* handler outcome, and the catalog is as it was built
C22_DispatchesDoNotInteract ==
    /\ tool_schemas = get_all_tool_schemas
    /\ \A d \in Dispatches : pc[d] = "done" => response[d] \in AloneResponses(d)

\* C22 witness: two dispatches have returned, and each took a step while
\* the other was in flight
C22_Witness ==
    /\ \A d \in Dispatches : pc[d] = "done"
    /\ \E d, e \in Dispatches :
          /\ d # e
          /\ e \in log[d]
          /\ d \in log[e]


\* a scheme, then "://", then at least one more character
HasRemainder(chars) ==
    \E i \in 2..Len(chars) :
        /\ i + 3 <= Len(chars)
        /\ SubSeq(chars, i, i + 2) = <<":", "/", "/">>

ValidUriErrorOf(f) == FStr("Field '{}' must be a valid URI", <<f.label>>)

\* C23: in a pass that runs to its end, every str value of a field with
\* format "uri" that got past the type check and has nothing after the
\* "://" of its scheme, or no scheme and "://" at all, gets the "must be a
\* valid URI" error
C23_UriNeedsRemainder ==
    Completed
        => \A f \in PassFields :
              (/\ f.value.kind = "str"
               /\ Has(f.schema, "format")
               /\ f.schema.format = "uri"
               /\ ~ShortCircuited(f)
               /\ ~HasRemainder(f.value.chars))
                 => ValidUriErrorOf(f) \in SeqSet(ErrorsAt(f.label))


\* undeclared keys are let through only where additionalProperties is true
AllowsAdditional(schema) ==
    Has(schema, "additionalProperties") /\ schema.additionalProperties

UnexpectedPropertyError(f, key) ==
    FStr("Field '{}' has unexpected property '{}'", <<f.label, Lit(key)>>)

\* the object values of the pass that reached _validate_object
PassObjects == {f \in PassFields : f.value.kind = "dict" /\ ~ShortCircuited(f)}

\* C24: in a pass that runs to its end, an undeclared top-level key is
\* reported "Unknown field" exactly when the top-level schema does not set
\* additionalProperties to true, left out included; an undeclared key of a
\* nested object is reported exactly when that object's schema sets
\* additionalProperties to false, left out excluded; and an accepted
\* undeclared key has no error of its own value
C24_DefaultDiffersByLevel ==
    Completed
        => /\ \A key \in UndeclaredKeys(arguments, request.schema) :
                /\ UnknownFieldError(key) \in SeqSet(validation_result.errors)
                      <=> ~AllowsAdditional(request.schema)
                /\ SeqSet(ErrorsAt(Lit(key))) \subseteq {UnknownFieldError(key)}
           /\ \A f \in PassObjects :
                 \A key \in UndeclaredKeys(f.value, f.schema) :
                    /\ UnexpectedPropertyError(f, key) \in SeqSet(validation_result.errors)
                          <=> ForbidsAdditional(f.schema)
                    /\ ErrorsAt(PropLabel(f.label, key)) = <<>>

\* C24 witness: both schemas leave additionalProperties out, and the only
\* error is the one of the undeclared top-level key
C24_Witness ==
    /\ Completed
    /\ ~Has(request.schema, "additionalProperties")
    /\ \E f \in PassObjects :
          /\ ~Has(f.schema, "additionalProperties")
          /\ UndeclaredKeys(f.value, f.schema) # {}
    /\ validation_result.errors = <<UnknownFieldError("zz")>>


RECURSIVE Below(_, _, _)
\* the field and everything supplied below it that has a schema node: the
\* elements of an array under items and the declared properties of an object
Below(value, schema, label) ==
    {[label |-> label, value |-> value, schema |-> schema, depth |-> 1]}
    \cup (IF value.kind = "list" /\ Has(schema, "items")
          THEN UNION {{[g EXCEPT !.depth = @ + 1] :
                          g \in Below(value.elems[i], schema.items, IndexLabel(label, i))} :
                         i \in 1..Len(value.elems)}
          ELSE {})
    \cup (IF value.kind = "dict" /\ Has(schema, "properties")
          THEN UNION {{[g EXCEPT !.depth = @ + 1] :
                          g \in Below(DictGet(value, k), PropSchema(schema, k), PropLabel(label, k))} :
                         k \in Keys(value) \cap PropNames(schema)}
          ELSE {})

\* every supplied value of the arguments that has a schema node
SuppliedFields ==
    IF arguments.kind # "dict" THEN {}
    ELSE UNION {Below(DictGet(arguments, k), PropSchema(request.schema, k), Lit(k)) :
                   k \in Keys(arguments) \cap PropNames(request.schema)}

\* the value passes the validation of its own schema node
Satisfies(f) ==
    LET errors == _validate_field(f.value, f.schema, f.label)
    IN  ~Raised(errors) /\ Len(errors) = 0

\* C25: when the result is valid, every supplied object below the arguments
\* has every name of its schema node's required list as a key, and every
\* supplied array element and property with a schema node passes the
\* validation of that node on its own
C25_ValidityIsHereditary ==
    (Validated /\ validation_result.valid)
        => \A f \in SuppliedFields :
              /\ f.value.kind = "dict" => RequiredOf(f.schema) \subseteq Keys(f.value)
              /\ Satisfies(f)

\* C25 witness: a valid result with an object two levels below the
\* arguments whose schema node requires a key
C25_Witness ==
    /\ Validated
    /\ validation_result.valid
    /\ \E f \in SuppliedFields :
          /\ f.depth = 2
          /\ f.value.kind = "dict"
          /\ RequiredOf(f.schema) # {}


\* the field declares a type, and every type it declares is one of names
DeclaresOnly(f, names) ==
    /\ Has(f.schema, "type")
    /\ SeqSet(f.schema.type) # {}
    /\ SeqSet(f.schema.type) \subseteq names

\* C26: in a pass that runs to its end, every boolean value of a field
\* declared "integer" or "number" and every floating value of a field
\* declared "integer" gets the type error of that field
C26_TypeNamesPartitionValues ==
    Completed
        => \A f \in PassFields :
              (\/ f.value.kind = "bool" /\ DeclaresOnly(f, {"integer", "number"})
               \/ f.value.kind = "float" /\ DeclaresOnly(f, {"integer"}))
                 => TypeErrorOf(f) \in SeqSet(ErrorsAt(f.label))


\* the dispatch passed the lookup and the validation
PassedValidation ==
    /\ Answered
    /\ validation_result # Unbound
    /\ validation_result.valid

\* what the routing of the answered dispatch gave: the call, or the exception
\* raised before any call
RoutingOfDispatch ==
    IF front = "mcp" THEN _route_tool_call(tool_name, OrEmpty(arguments))
    ELSE route_and_execute_tool(tool_name, arguments)

\* C27: a dispatch of a catalog tool whose arguments passed validation never
\* ends in "Unhandled tool" (no routing branch) or in an AttributeError (the
\* branch names a method its handler does not have)
C27_CatalogAndDispatcherAgree ==
    PassedValidation
        => \/ ~IsExc(RoutingOfDispatch)
           \/ RoutingOfDispatch.raise \notin {"ValueError", "AttributeError"}


\* the HTTP front end reached the handler method of an existing tool with
\* valid arguments, and the body of that method ends by returning a value
\* json.dumps takes
HttpHandlerCompletes ==
    /\ Answered
    /\ front = "http"
    /\ result # Unbound
    /\ ~IsExc(HandlerOutcome)
    /\ Serializable(HandlerOutcome.returns)

\* C28: when the handler of a valid HTTP call completes without failure,
\* the response has statusCode 200 and the body made from the value the
\* handler's body returns
C28_HttpCompletedIs200 ==
    HttpHandlerCompletes
        => /\ response.statusCode = 200
           /\ response = HttpSuccess(HandlerOutcome.returns)


\* the keys the branch of the tool reads as arguments["x"]
MandatoryKeys(branches, name) ==
    SeqSet(branches[BranchIndex(branches, Lit(name))].mandatory)

\* C29: in both routing chains the keys the branch of a catalog tool reads
\* as arguments["x"] are all in that tool's required list, and a dispatch
\* whose arguments passed validation never ends in the KeyError of an
\* absent key
C29_MandatoryKeysAreRequired ==
    /\ \A name \in ToolNames :
          \A branches \in {mcp_branches, http_branches} :
             /\ BranchIndex(branches, Lit(name)) # 0
             /\ MandatoryKeys(branches, name)
                   \subseteq RequiredOf(Descriptor(get_all_tool_schemas, name).inputSchema)
    /\ PassedValidation
          => \/ ~IsExc(RoutingOfDispatch)
             \/ RoutingOfDispatch.raise # "KeyError"

\* C29 witness: a dispatch passed validation and its branch read a key as
\* arguments["x"] and made the call
C29_Witness ==
    /\ PassedValidation
    /\ call # Unbound
    /\ MandatoryKeys(IF front = "mcp" THEN mcp_branches ELSE http_branches, tool_name.lit) # {}


ContextKeys == {"_project_id", "_lambda_context"}

\* the arguments the caller sent in the body
CallerArguments == HttpFraming(request.event).arguments

\* the mapping without the context keys
WithoutContext(mapping) == DictDel(DictDel(mapping, "_project_id"), "_lambda_context")

\* C30: in the HTTP front end the arguments are the caller's until
\* validation has passed; after it they hold the adapter's project id and
\* context under the two context keys, whatever the caller sent under them,
\* and are the caller's in every other key; and the keyword parameters a
\* pass-through branch forwards hold neither context key
C30_ContextKeysAfterValidation ==
    (front = "http" /\ arguments # Unbound)
        => /\ arguments # CallerArguments => PassedValidation
           /\ PassedValidation
                 => /\ DictGet(arguments, "_project_id") = project_id
                    /\ DictGet(arguments, "_lambda_context")
                          = PyDict(<<KV("function_name", request.context.function_name),
                                     KV("request_id", request.context.aws_request_id)>>)
                    /\ WithoutContext(arguments) = WithoutContext(CallerArguments)
                    /\ (tool_name.lit \in PassThroughTools /\ call # Unbound)
                          => Keys(call.kwargs) \cap ContextKeys = {}

\* C30 witness: the caller sent both context keys and an undeclared key to a
\* pass-through tool, validation passed, and the call forwards the
\* undeclared key
C30_Witness ==
    /\ front = "http"
    /\ PassedValidation
    /\ ContextKeys \subseteq Keys(CallerArguments)
    /\ DictGet(CallerArguments, "_project_id") # project_id
    /\ tool_name.lit \in PassThroughTools
    /\ call # Unbound
    /\ "zz" \in Keys(call.kwargs)

=============================================================================
